---- MODULE Spec2Model ----
(***************************************************************************)
(* Model of cosmwasm/enclaves/execute/src/registration/report.rs:          *)
(* the binary decoders SgxEnclaveReport::parse_from and                    *)
(* SgxQuote::parse_from, the quote-status mappers, AdvisoryIDs::vulnerable *)
(* and AttestationReport::from_cert.                                       *)
(***************************************************************************)
EXTENDS Integers, Sequences, FiniteSets, TLC

VARIABLES
    er,     \* the running call of SgxEnclaveReport::parse_from
    qt,     \* the running call of SgxQuote::parse_from
    mp,     \* the call of a mapper: its argument, receiver and result
    ac,     \* the running call of AttestationReport::from_cert
    dc      \* the DCAP quote under verification, untouched and tampered

vars == <<er, qt, mp, ac, dc>>

(***************************************************************************)
(* Bounds of the model.                                                    *)
(***************************************************************************)
\* how many bytes past the exact wire length an input buffer may have
MaxExtra == 2
\* input buffers are filled from the seeds 0..MaxSeed
MaxSeed == 1
\* the bytes of a quote header range over 0..MaxCode (low) and 0..1 (high)
MaxCode == 4
\* the longest list of advisory IDs given to AdvisoryIDs::vulnerable
MaxAdvisories == 3
\* in how many of its parts a certificate may differ from the well-formed one
MaxDeviations == 2

\* size of the embedded enclave report, the last read of SgxQuote::parse_from
EnclaveReportLen == 384

\* the fixed instant (seconds since the epoch) certificates are validated at
VerifyTime == 1723218496

\* the API version from_cert accepts
SupportedVersion == 5

\* the empty record (no local bound yet / no value returned)
NoValue == [x \in {} |-> 0]

\* no DCAP quote loaded
DcapIdle ==
    [quote |-> <<>>, sig |-> <<>>,
     coll |-> [genuine |-> FALSE, not_before |-> 0, not_after |-> 0],
     time_s |-> 0, pc |-> "idle", res |-> "none", tampered |-> <<>>, tres |-> "none"]

\* no call of from_cert made
CertIdle == [cert |-> NoValue, pc |-> 0, locals |-> NoValue, res |-> "idle", ret |-> NoValue]

\* no call of a decoder made
Idle == [bytes |-> <<>>, pos |-> 0, step |-> 0, vcode |-> 0, locals |-> NoValue,
         res |-> "idle", ret |-> NoValue]

\* an input buffer of len bytes, every position with its own value
Fill(len, seed) == [i \in 1..len |-> (i * i + 3 * seed * i + 7 * seed) % 256]

\* a quote buffer: four header bytes (as far as len reaches) and a filled rest
QuoteBytes(len, hdr, seed) ==
    [i \in 1..len |-> IF i <= 4 THEN hdr[i] ELSE (i * i + 3 * seed * i + 7 * seed) % 256]

\* a buffer with the byte at 1-based position p replaced by v
Poke(bytes, p, v) == [bytes EXCEPT ![p] = v]

(***************************************************************************)
(* Byte helpers of the decoders.                                           *)
(***************************************************************************)
RECURSIVE BeBytes(_)
\* big-endian reading: the value a from_be_bytes call would give
BeBytes(s) == IF s = <<>> THEN 0 ELSE BeBytes(Tail(s)) + Head(s) * 256 ^ (Len(s) - 1)

RECURSIVE LeBytes(_)
\* u16::from_le_bytes
LeBytes(s) == IF s = <<>> THEN 0 ELSE Head(s) + 256 * LeBytes(Tail(s))

\* u32::from_le_bytes. A u32 is held as its two 16-bit halves, the value
\* being hi * 65536 + lo, so that every u32 stays within TLC's
\* integers
LeU32(s) == [lo |-> LeBytes(SubSeq(s, 1, 2)), hi |-> LeBytes(SubSeq(s, 3, 4))]

\* &bytes[from..to]: the slice, or a panic when the range leaves the buffer
Slice(bytes, from, to) ==
    IF from <= to /\ to <= Len(bytes)
    THEN [panic |-> FALSE, s |-> SubSeq(bytes, from + 1, to)]
    ELSE [panic |-> TRUE, s |-> <<>>]

\* the outcome of a take whose guard held: the slice and the cursor moved
\* past it, or the panic of the slice
Taken(bytes, pos, n) ==
    LET ret == Slice(bytes, pos, pos + n)
    IN  [ok |-> ~ret.panic, panic |-> ret.panic, ret |-> ret.s,
         pos |-> IF ret.panic THEN pos ELSE pos + n]

\* the outcome of a take whose guard failed: Err, the cursor left alone
NotTaken(pos) == [ok |-> FALSE, panic |-> FALSE, ret |-> <<>>, pos |-> pos]

\* a take that slices without comparing with the length of the buffer
TakeUnchecked(bytes, pos, n) ==
    IF n > 0 THEN Taken(bytes, pos, n) ELSE NotTaken(pos)

\* the closure `take` of SgxEnclaveReport::parse_from: a bounds-checked slice
\* read at the cursor; on failure the cursor is left alone
ReportTake(bytes, pos, n) ==
    IF n > 0 /\ Len(bytes) >= pos + n THEN Taken(bytes, pos, n) ELSE NotTaken(pos)

\* a take that wants one byte more than it reads
TakeOffByOne(bytes, pos, n) ==
    IF n > 0 /\ Len(bytes) > pos + n THEN Taken(bytes, pos, n) ELSE NotTaken(pos)

\* the closure `take` of SgxQuote::parse_from
QuoteTake(bytes, pos, n) ==
    IF n > 0 /\ Len(bytes) >= pos + n THEN Taken(bytes, pos, n) ELSE NotTaken(pos)

\* <[u8; N]>::try_from(slice): fails unless the slice has exactly N bytes
TryFromSlice(s, n) == [ok |-> Len(s) = n, arr |-> s]

(***************************************************************************)
(* SgxEnclaveReport::parse_from                                            *)
(***************************************************************************)
\* the reads of parse_from in program order: the field bound, the number of
\* bytes taken and the conversion applied to the slice
ReportLayoutSwapped ==
    << [name |-> "cpu_svn",     n |-> 16, kind |-> "array"],
       [name |-> "misc_select", n |-> 4,  kind |-> "le32"],
       [name |-> "_reserved",   n |-> 28, kind |-> "skip"],
       [name |-> "attributes",  n |-> 16, kind |-> "array"],
       [name |-> "mr_enclave",  n |-> 32, kind |-> "array"],
       [name |-> "_reserved",   n |-> 32, kind |-> "skip"],
       [name |-> "mr_signer",   n |-> 32, kind |-> "array"],
       [name |-> "_reserved",   n |-> 96, kind |-> "skip"],
       [name |-> "isv_svn",     n |-> 2,  kind |-> "le"],
       [name |-> "isv_prod_id", n |-> 2,  kind |-> "le"],
       [name |-> "_reserved",   n |-> 60, kind |-> "skip"],
       [name |-> "report_data", n |-> 64, kind |-> "iter"] >>

\* the layout with report_data read before the last reserved region
ReportLayoutDataEarly ==
    << [name |-> "cpu_svn",     n |-> 16, kind |-> "array"],
       [name |-> "misc_select", n |-> 4,  kind |-> "le32"],
       [name |-> "_reserved",   n |-> 28, kind |-> "skip"],
       [name |-> "attributes",  n |-> 16, kind |-> "array"],
       [name |-> "mr_enclave",  n |-> 32, kind |-> "array"],
       [name |-> "_reserved",   n |-> 32, kind |-> "skip"],
       [name |-> "mr_signer",   n |-> 32, kind |-> "array"],
       [name |-> "_reserved",   n |-> 96, kind |-> "skip"],
       [name |-> "isv_prod_id", n |-> 2,  kind |-> "le"],
       [name |-> "isv_svn",     n |-> 2,  kind |-> "le"],
       [name |-> "report_data", n |-> 64, kind |-> "iter"],
       [name |-> "_reserved",   n |-> 60, kind |-> "skip"] >>

ReportLayout ==
    << [name |-> "cpu_svn",     n |-> 16, kind |-> "array"],
       [name |-> "misc_select", n |-> 4,  kind |-> "le32"],
       [name |-> "_reserved",   n |-> 28, kind |-> "skip"],
       [name |-> "attributes",  n |-> 16, kind |-> "array"],
       [name |-> "mr_enclave",  n |-> 32, kind |-> "array"],
       [name |-> "_reserved",   n |-> 32, kind |-> "skip"],
       [name |-> "mr_signer",   n |-> 32, kind |-> "array"],
       [name |-> "_reserved",   n |-> 96, kind |-> "skip"],
       [name |-> "isv_prod_id", n |-> 2,  kind |-> "le"],
       [name |-> "isv_svn",     n |-> 2,  kind |-> "le"],
       [name |-> "_reserved",   n |-> 60, kind |-> "skip"],
       [name |-> "report_data", n |-> 64, kind |-> "iter"] >>

\* the state of one call: the input, the cursor, the next read, the locals
\* bound so far, and the outcome with the value returned
ReportStart(bytes) ==
    [bytes |-> bytes, pos |-> 0, step |-> 1, locals |-> NoValue,
     res |-> "running", ret |-> NoValue]

ReportFail(st) == [st EXCEPT !.res = "ParseError", !.locals = NoValue]

\* the call unwinds in a panic
ReportPanic(st) == [st EXCEPT !.res = "panic", !.locals = NoValue]

\* one read of parse_from: take, then convert and bind
ReportRead(st) ==
    LET f == ReportLayout[st.step]
        t == ReportTake(st.bytes, st.pos, f.n)
        a == TryFromSlice(t.ret, f.n)
        bound(v) == [st EXCEPT !.pos = t.pos, !.step = @ + 1,
                               !.locals = (f.name :> v) @@ @]
        \* an error after the take: the closure has moved the cursor already
        failed == [ReportFail(st) EXCEPT !.pos = t.pos]
    IN  IF t.panic THEN ReportPanic(st)
        ELSE IF ~t.ok THEN ReportFail(st)
        ELSE CASE f.kind = "skip"  -> [st EXCEPT !.pos = t.pos, !.step = @ + 1]
               [] f.kind = "array" -> IF a.ok THEN bound(a.arr) ELSE failed
               [] f.kind = "le"    -> IF a.ok THEN bound(LeBytes(a.arr)) ELSE failed
               [] f.kind = "le32"  -> IF a.ok THEN bound(LeU32(a.arr)) ELSE failed
               \* the copy loop into [0u8; 64]: fails when the iterator runs dry
               [] f.kind = "iter"  -> IF Len(t.ret) >= f.n
                                      THEN bound(SubSeq(t.ret, 1, f.n))
                                      ELSE failed

\* the final length check and the construction of the value returned
ReportFinishLax(st) ==
    [st EXCEPT !.res = "Ok", !.ret = st.locals, !.locals = NoValue]

ReportFinish(st) ==
    IF st.pos # Len(st.bytes)
    THEN ReportFail(st)
    ELSE [st EXCEPT !.res = "Ok", !.ret = st.locals, !.locals = NoValue]

ReportStep(st) ==
    IF st.step <= Len(ReportLayout) THEN ReportRead(st) ELSE ReportFinish(st)

RECURSIVE ReportRun(_)
ReportRun(st) == IF st.res # "running" THEN st ELSE ReportRun(ReportStep(st))

\* SgxEnclaveReport::parse_from as a function of its input
ParseEnclaveReport(bytes) == ReportRun(ReportStart(bytes))

(***************************************************************************)
(* SgxQuote::parse_from                                                    *)
(***************************************************************************)
\* the inner match on the two-byte code that follows the version
EpidSigType(code) ==
    CASE code = 0 -> [ok |-> TRUE, v |-> "Unlinkable"]
      [] code = 1 -> [ok |-> TRUE, v |-> "Linkable"]
      [] OTHER    -> [ok |-> FALSE, v |-> "none"]

EcdsaAkTypeLax(code) ==
    CASE code = 2 -> [ok |-> TRUE, v |-> "P256_256"]
      [] code = 3 -> [ok |-> TRUE, v |-> "P384_384"]
      [] OTHER    -> [ok |-> TRUE, v |-> "P256_256"]

EcdsaAkType(code) ==
    CASE code = 2 -> [ok |-> TRUE, v |-> "P256_256"]
      [] code = 3 -> [ok |-> TRUE, v |-> "P384_384"]
      [] OTHER    -> [ok |-> FALSE, v |-> "none"]

\* the outer match on the version code: the variant and the decoder of its
\* two-byte argument
QuoteVersionArm(vcode) ==
    CASE vcode = 1 -> [ok |-> TRUE, variant |-> "V1", arg |-> "epid"]
      [] vcode = 2 -> [ok |-> TRUE, variant |-> "V2", arg |-> "epid"]
      [] vcode = 3 -> [ok |-> TRUE, variant |-> "V3", arg |-> "ecdsa"]
      [] OTHER     -> [ok |-> FALSE, variant |-> "none", arg |-> "none"]

\* the layout with the two u16 fields of the quoting enclave exchanged
QuoteLayoutSwapped ==
    << [name |-> "gid",                n |-> 4,  kind |-> "le32"],
       [name |-> "isv_svn_pce",        n |-> 2,  kind |-> "le"],
       [name |-> "isv_svn_qe",         n |-> 2,  kind |-> "le"],
       [name |-> "qe_vendor_id",       n |-> 16, kind |-> "uuid"],
       [name |-> "user_data",          n |-> 20, kind |-> "array"],
       [name |-> "isv_enclave_report", n |-> EnclaveReportLen, kind |-> "report"] >>

\* the reads that follow the version, in program order
QuoteLayout ==
    << [name |-> "gid",                n |-> 4,  kind |-> "le32"],
       [name |-> "isv_svn_qe",         n |-> 2,  kind |-> "le"],
       [name |-> "isv_svn_pce",        n |-> 2,  kind |-> "le"],
       [name |-> "qe_vendor_id",       n |-> 16, kind |-> "uuid"],
       [name |-> "user_data",          n |-> 20, kind |-> "array"],
       [name |-> "isv_enclave_report", n |-> EnclaveReportLen, kind |-> "report"] >>

\* Uuid::from_slice: a Uuid holds the 16 bytes in the order given
UuidFromSlice(s) == [ok |-> Len(s) = 16, uuid |-> s]

\* step 1 reads the version code, step 2 its argument, steps 3.. the layout
QuoteStart(bytes) ==
    [bytes |-> bytes, pos |-> 0, step |-> 1, vcode |-> 0, locals |-> NoValue,
     res |-> "running", ret |-> NoValue]

QuoteFail(st) == [st EXCEPT !.res = "ParseError", !.locals = NoValue]

QuotePanic(st) == [st EXCEPT !.res = "panic", !.locals = NoValue]

\* match u16::from_le_bytes(take(2)?) { 1 | 2 | 3 => ..., _ => Err }
QuoteReadVersion(st) ==
    LET t == QuoteTake(st.bytes, st.pos, 2)
        a == TryFromSlice(t.ret, 2)
        \* an error after the take: the closure has moved the cursor already
        failed == [QuoteFail(st) EXCEPT !.pos = t.pos]
    IN  IF t.panic THEN QuotePanic(st)
        ELSE IF ~t.ok THEN QuoteFail(st)
        ELSE IF ~a.ok THEN failed
        ELSE IF ~QuoteVersionArm(LeBytes(a.arr)).ok THEN failed
        ELSE [st EXCEPT !.pos = t.pos, !.step = 2, !.vcode = LeBytes(a.arr)]

\* the arm's own take(2) and inner match; binds `version`
QuoteReadType(st) ==
    LET t == QuoteTake(st.bytes, st.pos, 2)
        a == TryFromSlice(t.ret, 2)
        arm == QuoteVersionArm(st.vcode)
        ty == IF arm.arg = "epid" THEN EpidSigType(LeBytes(a.arr))
                                  ELSE EcdsaAkType(LeBytes(a.arr))
        failed == [QuoteFail(st) EXCEPT !.pos = t.pos]
    IN  IF t.panic THEN QuotePanic(st)
        ELSE IF ~t.ok THEN QuoteFail(st)
        ELSE IF ~a.ok THEN failed
        ELSE IF ~ty.ok THEN failed
        ELSE [st EXCEPT !.pos = t.pos, !.step = 3,
                        !.locals = ("version" :> <<arm.variant, ty.v>>) @@ @]

QuoteReadField(st) ==
    LET f == QuoteLayout[st.step - 2]
        t == QuoteTake(st.bytes, st.pos, f.n)
        a == TryFromSlice(t.ret, f.n)
        u == UuidFromSlice(a.arr)
        r == ParseEnclaveReport(t.ret)
        bound(v) == [st EXCEPT !.pos = t.pos, !.step = @ + 1,
                               !.locals = (f.name :> v) @@ @]
        failed == [QuoteFail(st) EXCEPT !.pos = t.pos]
    IN  IF t.panic THEN QuotePanic(st)
        ELSE IF ~t.ok THEN QuoteFail(st)
        ELSE CASE f.kind = "le"     -> IF a.ok THEN bound(LeBytes(a.arr)) ELSE failed
               [] f.kind = "le32"   -> IF a.ok THEN bound(LeU32(a.arr)) ELSE failed
               [] f.kind = "array"  -> IF a.ok THEN bound(a.arr) ELSE failed
               [] f.kind = "uuid"   -> IF a.ok /\ u.ok THEN bound(u.uuid) ELSE failed
               [] f.kind = "report" -> IF r.res = "Ok" THEN bound(r.ret)
                                       ELSE IF r.res = "panic"
                                            THEN [QuotePanic(st) EXCEPT !.pos = t.pos]
                                       ELSE failed

QuoteFinish(st) ==
    IF st.pos # Len(st.bytes)
    THEN QuoteFail(st)
    ELSE [st EXCEPT !.res = "Ok", !.ret = st.locals, !.locals = NoValue]

QuoteStep(st) ==
    CASE st.step = 1 -> QuoteReadVersion(st)
      [] st.step = 2 -> QuoteReadType(st)
      [] st.step > 2 /\ st.step <= Len(QuoteLayout) + 2 -> QuoteReadField(st)
      [] OTHER -> QuoteFinish(st)

RECURSIVE QuoteRun(_)
QuoteRun(st) == IF st.res # "running" THEN st ELSE QuoteRun(QuoteStep(st))

\* SgxQuote::parse_from as a function of its input
ParseQuote(bytes) == QuoteRun(QuoteStart(bytes))

(***************************************************************************)
(* The quote-status mappers.                                               *)
(***************************************************************************)
\* enum SgxQuoteStatus
SgxQuoteStatus ==
    {"OK", "SignatureInvalid", "GroupRevoked", "SignatureRevoked", "KeyRevoked",
     "SigrlVersionMismatch", "GroupOutOfDate", "ConfigurationNeeded",
     "SwHardeningNeeded", "ConfigurationAndSwHardeningNeeded", "OutOfDate",
     "OutOfDateConfigurationNeeded", "UnknownBadStatus"}

\* the arms of impl From<&str> for SgxQuoteStatus with two results exchanged
StatusArmsSwapped ==
    << <<"OK", "OK">>,
       <<"SIGNATURE_INVALID", "SignatureInvalid">>,
       <<"GROUP_REVOKED", "GroupRevoked">>,
       <<"SIGNATURE_REVOKED", "SignatureRevoked">>,
       <<"KEY_REVOKED", "KeyRevoked">>,
       <<"SIGRL_VERSION_MISMATCH", "SigrlVersionMismatch">>,
       <<"GROUP_OUT_OF_DATE", "OutOfDate">>,
       <<"OUT_OF_DATE", "GroupOutOfDate">>,
       <<"OUT_OF_DATE_CONFIGURATION_NEEDED", "OutOfDateConfigurationNeeded">>,
       <<"CONFIGURATION_NEEDED", "ConfigurationNeeded">>,
       <<"SW_HARDENING_NEEDED", "SwHardeningNeeded">>,
       <<"CONFIGURATION_AND_SW_HARDENING_NEEDED", "ConfigurationAndSwHardeningNeeded">> >>

\* the literal arms of impl From<&str> for SgxQuoteStatus, in program order
StatusArms ==
    << <<"OK", "OK">>,
       <<"SIGNATURE_INVALID", "SignatureInvalid">>,
       <<"GROUP_REVOKED", "GroupRevoked">>,
       <<"SIGNATURE_REVOKED", "SignatureRevoked">>,
       <<"KEY_REVOKED", "KeyRevoked">>,
       <<"SIGRL_VERSION_MISMATCH", "SigrlVersionMismatch">>,
       <<"GROUP_OUT_OF_DATE", "GroupOutOfDate">>,
       <<"OUT_OF_DATE", "OutOfDate">>,
       <<"OUT_OF_DATE_CONFIGURATION_NEEDED", "OutOfDateConfigurationNeeded">>,
       <<"CONFIGURATION_NEEDED", "ConfigurationNeeded">>,
       <<"SW_HARDENING_NEEDED", "SwHardeningNeeded">>,
       <<"CONFIGURATION_AND_SW_HARDENING_NEEDED", "ConfigurationAndSwHardeningNeeded">> >>

\* match status { literal => ..., _ => UnknownBadStatus }: the first arm
\* whose literal equals the string, the wildcard arm when none does
SgxQuoteStatusFrom(status) ==
    LET hits == {i \in DOMAIN StatusArms : StatusArms[i][1] = status}
    IN  IF hits = {} THEN "UnknownBadStatus"
        ELSE StatusArms[CHOOSE i \in hits : \A j \in hits : i <= j][2]

\* the mapping with OK given an outcome of its own
NodeAuthResultFromOkSucceeds(status) ==
    CASE status = "ConfigurationAndSwHardeningNeeded" -> "SwHardeningAndConfigurationNeeded"
      [] status = "ConfigurationNeeded"  -> "ConfigurationNeeded"
      [] status = "GroupOutOfDate"       -> "GroupOutOfDate"
      [] status = "KeyRevoked"           -> "KeyRevoked"
      [] status = "SigrlVersionMismatch" -> "SigrlVersionMismatch"
      [] status = "SignatureRevoked"     -> "SignatureRevoked"
      [] status = "GroupRevoked"         -> "GroupRevoked"
      [] status = "OK"                   -> "Success"
      [] OTHER                           -> "BadQuoteStatus"

\* impl From<&SgxQuoteStatus> for NodeAuthResult
NodeAuthResultFrom(status) ==
    CASE status = "ConfigurationAndSwHardeningNeeded" -> "SwHardeningAndConfigurationNeeded"
      [] status = "ConfigurationNeeded"  -> "ConfigurationNeeded"
      [] status = "GroupOutOfDate"       -> "GroupOutOfDate"
      [] status = "KeyRevoked"           -> "KeyRevoked"
      [] status = "SigrlVersionMismatch" -> "SigrlVersionMismatch"
      [] status = "SignatureRevoked"     -> "SignatureRevoked"
      [] status = "GroupRevoked"         -> "GroupRevoked"
      [] OTHER                           -> "BadQuoteStatus"

(***************************************************************************)
(* AdvisoryIDs::vulnerable                                                 *)
(***************************************************************************)
\* an allow-list that lacks its last entry
WhitelistShort ==
    <<"INTEL-SA-00334", "INTEL-SA-00219", "INTEL-SA-00615", "INTEL-SA-00657">>

\* const WHITELISTED_ADVISORIES (the same slice in both hardware builds)
WHITELISTED_ADVISORIES ==
    <<"INTEL-SA-00334", "INTEL-SA-00219", "INTEL-SA-00615", "INTEL-SA-00657",
      "INTEL-SA-00767">>

\* static ref ADVISORY_DESC: the HashMap from an ID to its description
ADVISORY_DESC ==
    ("INTEL-SA-00161" :> "You must disable hyperthreading in the BIOS") @@
    ("INTEL-SA-00289" :> "You must disable overclocking/undervolting in the BIOS")

\* slice.contains(x)
Contains(slice, x) == \E k \in DOMAIN slice : slice[k] = x

\* the body of the for loop of vulnerable, for the element i
VulnerablePush(vulnerable, i) ==
    IF ~Contains(WHITELISTED_ADVISORIES, i)
    THEN IF i \in DOMAIN ADVISORY_DESC
         THEN vulnerable \o <<i, ADVISORY_DESC[i]>>
         ELSE Append(vulnerable, i)
    ELSE vulnerable

RECURSIVE VulnerableLoop(_, _, _)
\* for i in self.0.iter() { ... }, from the k-th element on
VulnerableLoop(ids, k, vulnerable) ==
    IF k > Len(ids) THEN vulnerable
    ELSE VulnerableLoop(ids, k + 1, VulnerablePush(vulnerable, ids[k]))

\* AdvisoryIDs::vulnerable(&self): the receiver is only read
Vulnerable(self) == [self |-> self, ret |-> VulnerableLoop(self, 1, <<>>)]

(***************************************************************************)
(* serde_json::Value and the accessors from_cert uses.                     *)
(***************************************************************************)
Some(x) == [some |-> TRUE, v |-> x]
None == [some |-> FALSE, v |-> 0]

\* a Value: its kind t and, by kind, the integer n of a number, the text s
\* of a float or of a string, the elements a of an array and the members m
\* of an object. A string that a decoder reads further is held as what the
\* decoder sees: its characters in a (hex), its parts in r (base64 text,
\* date-time text).
NoDetail == [none |-> TRUE]
JValue(t, n, s, a, r) == [t |-> t, n |-> n, s |-> s, a |-> a, r |-> r, m |-> <<>>]

JNull == JValue("null", 0, "", <<>>, NoDetail)
\* Number: N::PosInt for an integer >= 0, N::NegInt for one < 0, N::Float
JInt(n) == JValue(IF n >= 0 THEN "posint" ELSE "negint", n, "", <<>>, NoDetail)
\* an integer of 2^31 or more: its four 16-bit limbs, least significant
\* first, in a
JBig(limbs) == JValue("posint", 0, "", limbs, NoDetail)
JFloat(txt) == JValue("float", 0, txt, <<>>, NoDetail)
JStr(txt) == JValue("string", 0, txt, <<>>, NoDetail)
JChars(chars) == JValue("string", 0, "", chars, NoDetail)
JText(parts) == JValue("string", 0, "", <<>>, parts)
JArr(elems) == JValue("array", 0, "", elems, NoDetail)
JObj(members) == [JValue("object", 0, "", <<>>, NoDetail) EXCEPT !.m = members]
\* a member the object does not have
JAbsent == JValue("absent", 0, "", <<>>, NoDetail)

\* value["key"]: the member of an object, Null for a missing member and for
\* a value that is no object
Index(value, key) ==
    IF value.t = "object" /\ key \in DOMAIN value.m THEN value.m[key] ELSE JNull

\* value.get("key")
Get(value, key) ==
    IF value.t = "object" /\ key \in DOMAIN value.m THEN Some(value.m[key]) ELSE None

\* a u64 is held as its four 16-bit limbs, least significant first
U64(n) == <<n % 65536, (n \div 65536) % 65536, 0, 0>>

\* Value::as_u64: only a non-negative integer number
AsU64(value) ==
    IF value.t = "posint"
    THEN Some(IF value.a = <<>> THEN U64(value.n) ELSE value.a)
    ELSE None

\* Value::as_str
AsStr(value) == IF value.t = "string" THEN Some(value) ELSE None

\* serde_json::from_value::<Vec<String>>: an array whose elements are all
\* strings
FromValueVecString(raw) ==
    IF raw.t = "array" /\ \A k \in DOMAIN raw.a : raw.a[k].t = "string"
    THEN [ok |-> TRUE, v |-> [k \in DOMAIN raw.a |-> raw.a[k].s]]
    ELSE [ok |-> FALSE, v |-> <<>>]

(***************************************************************************)
(* Text decoders. A text is the sequence of its characters.                *)
(***************************************************************************)
HexDigits ==
    ("0" :> 0) @@ ("1" :> 1) @@ ("2" :> 2) @@ ("3" :> 3) @@ ("4" :> 4) @@
    ("5" :> 5) @@ ("6" :> 6) @@ ("7" :> 7) @@ ("8" :> 8) @@ ("9" :> 9) @@
    ("a" :> 10) @@ ("b" :> 11) @@ ("c" :> 12) @@ ("d" :> 13) @@ ("e" :> 14) @@
    ("f" :> 15) @@ ("A" :> 10) @@ ("B" :> 11) @@ ("C" :> 12) @@ ("D" :> 13) @@
    ("E" :> 14) @@ ("F" :> 15)

\* hex::decode: an even number of hex digits, two per byte
HexDecode(chars) ==
    IF Len(chars) % 2 = 0 /\ \A k \in DOMAIN chars : chars[k] \in DOMAIN HexDigits
    THEN [ok |-> TRUE,
          v |-> [k \in 1..(Len(chars) \div 2) |->
                    16 * HexDigits[chars[2 * k - 1]] + HexDigits[chars[2 * k]]]]
    ELSE [ok |-> FALSE, v |-> <<>>]

\* base64::decode. A base64 text is given by what it decodes to: nothing
\* (valid = FALSE), or the buffer QuoteBytes(len, hdr, seed)
Base64Decode(text) ==
    IF text.valid
    THEN [ok |-> TRUE, v |-> QuoteBytes(text.len, text.hdr, text.seed)]
    ELSE [ok |-> FALSE, v |-> <<>>]

\* a date-time text is given by its parts: the naive date and time and the
\* zone designators that follow them. format!("{}Z", s) appends one more.
AppendZ(ts) == [ts EXCEPT !.zone = Append(@, "Z")]

IsLeap(y) == (y % 4 = 0 /\ y % 100 # 0) \/ y % 400 = 0

DaysInMonth(y, m) ==
    CASE m \in {1, 3, 5, 7, 8, 10, 12} -> 31
      [] m \in {4, 6, 9, 11} -> 30
      [] OTHER -> IF IsLeap(y) THEN 29 ELSE 28

\* days from 1970-01-01 to the civil date y-m-d (proleptic Gregorian)
DaysFromCivil(y, m, d) ==
    LET yy  == IF m <= 2 THEN y - 1 ELSE y
        era == yy \div 400
        yoe == yy - era * 400
        mp0 == IF m > 2 THEN m - 3 ELSE m + 9
        doy == (153 * mp0 + 2) \div 5 + d - 1
        doe == yoe * 365 + yoe \div 4 - yoe \div 100 + doy
    IN  era * 146097 + doe - 719468

\* the seconds east of UTC a zone designator stands for
ZoneOffset(z) ==
    CASE z = "Z" -> 0
      [] z = "+00:00" -> 0
      [] z = "+01:00" -> 3600
      [] z = "-05:00" -> 0 - 18000

\* chrono::DateTime::parse_from_rfc3339 followed by .timestamp(): a valid
\* date and time followed by exactly one zone designator
ParseRfc3339(ts) ==
    IF /\ ts.wellformed
       /\ ts.mo \in 1..12 /\ ts.d \in 1..DaysInMonth(ts.y, ts.mo)
       /\ ts.h \in 0..23 /\ ts.mi \in 0..59 /\ ts.s \in 0..59
       /\ Len(ts.zone) = 1
    THEN [ok |-> TRUE,
          timestamp |-> DaysFromCivil(ts.y, ts.mo, ts.d) * 86400
                        + ts.h * 3600 + ts.mi * 60 + ts.s - ZoneOffset(ts.zone[1])]
    ELSE [ok |-> FALSE, timestamp |-> 0]

\* `x as u64` of an i64: a u64 is held as its four 16-bit limbs, least
\* significant first; a negative x wraps to 2^64 + x
I64AsU64(x) ==
    IF x >= 0
    THEN <<x % 65536, (x \div 65536) % 65536, 0, 0>>
    ELSE LET m == (0 - x) - 1
         IN  <<65535 - (m % 65536), 65535 - ((m \div 65536) % 65536), 65535, 65535>>

\* a narrowing that saturates at u16::MAX
U64SaturateU16(x) == IF x[2] # 0 \/ x[3] # 0 \/ x[4] # 0 THEN 65535 ELSE x[1]

\* `x as u16` of a u64: the low 16 bits
U64AsU16(x) == x[1]

(***************************************************************************)
(* AttestationReport::from_cert                                            *)
(***************************************************************************)
\* an order in which the report is parsed before the certificate is checked
StagesParseFirst ==
    <<"get_netscape_comment", "deserialize", "end_entity_cert", "parse_report",
      "verify_chain", "verify_signature", "version", "platform_info_blob",
      "quote_status", "quote_body", "advisories", "tcb_eval_data_number",
      "timestamp", "construct">>

\* the steps of from_cert in program order
Stages ==
    <<"get_netscape_comment", "deserialize", "end_entity_cert", "verify_chain",
      "verify_signature", "parse_report", "version", "platform_info_blob",
      "quote_status", "quote_body", "advisories", "tcb_eval_data_number",
      "timestamp", "construct">>

\* the report bytes as JSON: the members a certificate's report carries
ReportMembers ==
    {"version", "platformInfoBlob", "isvEnclaveQuoteStatus", "isvEnclaveQuoteBody",
     "advisoryIDs", "tcbEvaluationDataNumber", "timestamp"}

\* serde_json::from_slice::<Value>(&report.report)
ParseReport(cert) ==
    CASE cert.report_json = "object" ->
            [ok |-> TRUE,
             v |-> JObj([k \in {m \in ReportMembers : cert[m].t # "absent"} |-> cert[k]])]
      [] cert.report_json = "array" -> [ok |-> TRUE, v |-> JArr(<<>>)]
      [] OTHER -> [ok |-> FALSE, v |-> JNull]

\* webpki verify_is_valid_tls_server_cert against the trust anchors at the
\* fixed instant: the issuer is anchored and the instant is within validity
ChainValid(signing_cert) ==
    /\ signing_cert.issuer = "ias"
    /\ signing_cert.not_before <= VerifyTime
    /\ VerifyTime <= signing_cert.not_after

CertStart(cert) ==
    [cert |-> cert, pc |-> 1, locals |-> NoValue, res |-> "running", ret |-> NoValue]

CertFail(st, kind) == [st EXCEPT !.res = kind, !.locals = NoValue]

CertBind(st, name, v) == [st EXCEPT !.pc = @ + 1, !.locals = (name :> v) @@ @]

\* let payload = get_netscape_comment(cert).map_err(ReportParseError)?
GetNetscapeComment(st) ==
    IF st.cert.payload = "ok" THEN CertBind(st, "payload", "payload")
    ELSE CertFail(st, "ReportParseError")

\* let report: EndorsedAttestationReport = serde_json::from_slice(&payload)?
Deserialize(st) ==
    IF st.cert.endorsed = "ok" THEN CertBind(st, "report", "endorsed")
    ELSE CertFail(st, "ReportParseError")

\* webpki::EndEntityCert::from(&report.signing_cert).map_err(ReportParseError)?
EndEntityCert(st) ==
    IF st.cert.signing_cert.der = "ok" THEN CertBind(st, "signing_cert", st.cert.signing_cert)
    ELSE CertFail(st, "ReportParseError")

\* a chain check that lets every certificate pass
VerifyChainLax(st) == [st EXCEPT !.pc = @ + 1]

\* match signing_cert.verify_is_valid_tls_server_cert(..) { Err => ReportValidationError }
VerifyChain(st) ==
    IF ChainValid(st.locals.signing_cert) THEN [st EXCEPT !.pc = @ + 1]
    ELSE CertFail(st, "ReportValidationError")

\* a signature check whose failure is only logged
VerifySignatureLax(st) == [st EXCEPT !.pc = @ + 1]

\* match signing_cert.verify_signature(..) { Err => ReportParseError }
VerifySignature(st) ==
    IF st.cert.signature = "valid" THEN [st EXCEPT !.pc = @ + 1]
    ELSE CertFail(st, "ReportParseError")

\* let attn_report: Value = serde_json::from_slice(&report.report)?
ParseReportStage(st) ==
    IF ParseReport(st.cert).ok THEN CertBind(st, "attn_report", ParseReport(st.cert).v)
    ELSE CertFail(st, "ReportParseError")

\* a version check that also lets version 4 pass
CheckVersionLax(st) ==
    LET version == AsU64(Index(st.locals.attn_report, "version"))
    IN  IF ~version.some THEN CertFail(st, "ReportParseError")
        ELSE IF version.v # U64(SupportedVersion) /\ version.v # U64(4)
             THEN CertFail(st, "ReportParseError")
        ELSE [st EXCEPT !.pc = @ + 1]

\* attn_report["version"].as_u64().ok_or(..)?; if version != 5 { Err }
CheckVersion(st) ==
    LET version == AsU64(Index(st.locals.attn_report, "version"))
    IN  IF ~version.some THEN CertFail(st, "ReportParseError")
        ELSE IF version.v # U64(SupportedVersion) THEN CertFail(st, "ReportParseError")
        ELSE [st EXCEPT !.pc = @ + 1]

\* if let Some(blob) = attn_report["platformInfoBlob"].as_str() { hex::decode(blob)? }
PlatformInfoBlob(st) ==
    LET blob == AsStr(Index(st.locals.attn_report, "platformInfoBlob"))
        as_binary == HexDecode(blob.v.a)
    IN  IF ~blob.some THEN CertBind(st, "platform_info_blob", None)
        ELSE IF ~as_binary.ok THEN CertFail(st, "ReportParseError")
        ELSE CertBind(st, "platform_info_blob", Some(as_binary.v))

\* a status step that rejects a report whose status is not OK
QuoteStatusStrict(st) ==
    LET status_string == AsStr(Index(st.locals.attn_report, "isvEnclaveQuoteStatus"))
    IN  IF ~status_string.some THEN CertFail(st, "ReportParseError")
        ELSE IF SgxQuoteStatusFrom(status_string.v.s) # "OK"
             THEN CertFail(st, "ReportParseError")
        ELSE CertBind(st, "sgx_quote_status", SgxQuoteStatusFrom(status_string.v.s))

\* attn_report["isvEnclaveQuoteStatus"].as_str().ok_or_else(..)?, then From<&str>
QuoteStatus(st) ==
    LET status_string == AsStr(Index(st.locals.attn_report, "isvEnclaveQuoteStatus"))
    IN  IF ~status_string.some THEN CertFail(st, "ReportParseError")
        ELSE CertBind(st, "sgx_quote_status", SgxQuoteStatusFrom(status_string.v.s))

\* as_str, base64::decode, SgxQuote::parse_from, each with `?`
QuoteBody(st) ==
    LET quote_encoded == AsStr(Index(st.locals.attn_report, "isvEnclaveQuoteBody"))
        quote_raw == Base64Decode(quote_encoded.v.r)
        quote == ParseQuote(quote_raw.v)
    IN  IF ~quote_encoded.some THEN CertFail(st, "ReportParseError")
        ELSE IF ~quote_raw.ok THEN CertFail(st, "ReportParseError")
        ELSE IF quote.res = "panic" THEN CertFail(st, "panic")
        ELSE IF quote.res # "Ok" THEN CertFail(st, "ReportParseError")
        ELSE CertBind(st, "sgx_quote_body", quote.ret)

\* a decoding of advisoryIDs that falls back to the empty list
AdvisoriesLenient(st) ==
    LET raw == Get(st.locals.attn_report, "advisoryIDs")
        decoded == FromValueVecString(raw.v)
    IN  IF ~raw.some \/ ~decoded.ok THEN CertBind(st, "advisories", <<>>)
        ELSE CertBind(st, "advisories", decoded.v)

\* if let Some(raw) = attn_report.get("advisoryIDs") { from_value(raw)? } else { vec![] }
Advisories(st) ==
    LET raw == Get(st.locals.attn_report, "advisoryIDs")
        decoded == FromValueVecString(raw.v)
    IN  IF ~raw.some THEN CertBind(st, "advisories", <<>>)
        ELSE IF ~decoded.ok THEN CertFail(st, "ReportParseError")
        ELSE CertBind(st, "advisories", decoded.v)

\* attn_report["tcbEvaluationDataNumber"].as_u64().ok_or(..)? as u16
TcbEvalDataNumber(st) ==
    LET n == AsU64(Index(st.locals.attn_report, "tcbEvaluationDataNumber"))
    IN  IF ~n.some THEN CertFail(st, "ReportParseError")
        ELSE CertBind(st, "tcb_eval_data_number", U64AsU16(n.v))

\* as_str, format!("{}Z"), parse_from_rfc3339, .timestamp()
Timestamp(st) ==
    LET timestamp_str == AsStr(Index(st.locals.attn_report, "timestamp"))
        time == ParseRfc3339(AppendZ(timestamp_str.v.r))
    IN  IF ~timestamp_str.some THEN CertFail(st, "ReportParseError")
        ELSE IF ~time.ok THEN CertFail(st, "ReportParseError")
        ELSE CertBind(st, "timestamp_since_epoch", time.timestamp)

\* Ok(Self { .. })
Construct(st) ==
    [st EXCEPT !.res = "Ok", !.locals = NoValue,
               !.ret = [timestamp |-> I64AsU64(st.locals.timestamp_since_epoch),
                        sgx_quote_status |-> st.locals.sgx_quote_status,
                        sgx_quote_body |-> st.locals.sgx_quote_body,
                        platform_info_blob |-> st.locals.platform_info_blob,
                        advisory_ids |-> st.locals.advisories,
                        tcb_eval_data_number |-> st.locals.tcb_eval_data_number]]

CertStep(st) ==
    CASE Stages[st.pc] = "get_netscape_comment" -> GetNetscapeComment(st)
      [] Stages[st.pc] = "deserialize"          -> Deserialize(st)
      [] Stages[st.pc] = "end_entity_cert"      -> EndEntityCert(st)
      [] Stages[st.pc] = "verify_chain"         -> VerifyChain(st)
      [] Stages[st.pc] = "verify_signature"     -> VerifySignature(st)
      [] Stages[st.pc] = "parse_report"         -> ParseReportStage(st)
      [] Stages[st.pc] = "version"              -> CheckVersion(st)
      [] Stages[st.pc] = "platform_info_blob"   -> PlatformInfoBlob(st)
      [] Stages[st.pc] = "quote_status"         -> QuoteStatus(st)
      [] Stages[st.pc] = "quote_body"           -> QuoteBody(st)
      [] Stages[st.pc] = "advisories"           -> Advisories(st)
      [] Stages[st.pc] = "tcb_eval_data_number" -> TcbEvalDataNumber(st)
      [] Stages[st.pc] = "timestamp"            -> Timestamp(st)
      [] Stages[st.pc] = "construct"            -> Construct(st)

RECURSIVE CertRun(_)
CertRun(st) == IF st.res # "running" THEN st ELSE CertRun(CertStep(st))

\* AttestationReport::from_cert as a function of the certificate
FromCert(cert) == CertRun(CertStart(cert))

(***************************************************************************)
(* Inputs of the mappers and the mapper calls.                             *)
(***************************************************************************)
\* status strings: the literals of the table, and strings that are none of
\* them (empty, other case, a literal with a trailing character, unknown)
StatusStrings ==
    {StatusArms[i][1] : i \in DOMAIN StatusArms} \cup
    {"", "ok", "Ok", "OK ", "GROUP_OUT_OF_DATE_", "group_out_of_date",
     "SW_HARDENING", "TCB_OK", "UnknownBadStatus"}

\* advisory IDs a report may carry: allow-listed, described, neither, and a
\* string that is itself a description
AdvisoryUniverse ==
    {"INTEL-SA-00334", "INTEL-SA-00219", "INTEL-SA-00615", "INTEL-SA-00657",
     "INTEL-SA-00767", "INTEL-SA-00161", "INTEL-SA-00289", "INTEL-SA-00233",
     "You must disable hyperthreading in the BIOS"}

AdvisoryLists ==
    UNION {[1..n -> AdvisoryUniverse] : n \in 0..MaxAdvisories}

\* no call of a mapper made
MapperIdle == [call |-> "none", arg |-> "", self |-> <<>>, done |-> FALSE, ret |-> ""]

\* a call about to be made: the function, its argument and, for a method,
\* its receiver
MapperCall(call, arg, self) ==
    [call |-> call, arg |-> arg, self |-> self, done |-> FALSE, ret |-> ""]

InitMapper ==
    /\ er = Idle /\ qt = Idle /\ ac = CertIdle /\ dc = DcapIdle
    /\ \/ \E s \in StatusStrings : mp = MapperCall("SgxQuoteStatus::from", s, <<>>)
       \/ \E status \in SgxQuoteStatus : mp = MapperCall("NodeAuthResult::from", status, <<>>)
       \/ \E ids \in AdvisoryLists : mp = MapperCall("vulnerable", ids, ids)

StatusFromStrCall ==
    /\ mp.call = "SgxQuoteStatus::from" /\ ~mp.done
    /\ mp' = [mp EXCEPT !.done = TRUE, !.ret = SgxQuoteStatusFrom(mp.arg)]
    /\ UNCHANGED <<er, qt, ac, dc>>

NodeAuthResultFromCall ==
    /\ mp.call = "NodeAuthResult::from" /\ ~mp.done
    /\ mp' = [mp EXCEPT !.done = TRUE, !.ret = NodeAuthResultFrom(mp.arg)]
    /\ UNCHANGED <<er, qt, ac, dc>>

VulnerableCall ==
    /\ mp.call = "vulnerable" /\ ~mp.done
    /\ mp' = [mp EXCEPT !.done = TRUE, !.self = Vulnerable(mp.self).self,
                        !.ret = Vulnerable(mp.self).ret]
    /\ UNCHANGED <<er, qt, ac, dc>>

NextMapper == StatusFromStrCall \/ NodeAuthResultFromCall \/ VulnerableCall

SpecMapper == InitMapper /\ [][NextMapper]_vars

(***************************************************************************)
(* Inputs of the decoders.                                                 *)
(***************************************************************************)
ReportLens == 0..(EnclaveReportLen + MaxExtra)

\* the four header bytes of a quote: version code and type code, each a
\* little-endian u16
Headers == {<<b0, b1, b2, b3>> : b0 \in 0..MaxCode, b1 \in 0..1,
                                 b2 \in 0..MaxCode, b3 \in 0..1}

ValidHeaders == {<<1, 0, 0, 0>>, <<1, 0, 1, 0>>, <<2, 0, 0, 0>>, <<2, 0, 1, 0>>,
                 <<3, 0, 2, 0>>, <<3, 0, 3, 0>>}

QuoteWireLen == 48 + EnclaveReportLen

QuoteLens == 0..(QuoteWireLen + MaxExtra)

\* the quote of the test fixture: the bytes that the isvEnclaveQuoteBody text
\* of attesation_report() encodes
FixtureQuote ==
    << 2, 0, 1, 0, 47, 11, 0, 0, 10, 0, 9, 0, 0, 0, 0, 0,
       173, 115, 69, 3, 136, 166, 119, 98, 63, 130, 33, 150, 117, 182, 2, 76,
       0, 0, 0, 0, 0, 0, 0, 0, 0, 0, 0, 0, 0, 0, 0, 0,
       5, 14, 2, 5, 255, 128, 0, 0, 0, 0, 0, 0, 0, 0, 0, 0,
       0, 0, 0, 0, 0, 0, 0, 0, 0, 0, 0, 0, 0, 0, 0, 0,
       0, 0, 0, 0, 0, 0, 0, 0, 0, 0, 0, 0, 0, 0, 0, 0,
       7, 0, 0, 0, 0, 0, 0, 0, 7, 0, 0, 0, 0, 0, 0, 0,
       51, 10, 169, 16, 163, 119, 103, 128, 226, 0, 38, 174, 61, 172, 7, 175,
       14, 90, 147, 31, 132, 241, 248, 48, 125, 187, 133, 144, 47, 88, 105, 83,
       0, 0, 0, 0, 0, 0, 0, 0, 0, 0, 0, 0, 0, 0, 0, 0,
       0, 0, 0, 0, 0, 0, 0, 0, 0, 0, 0, 0, 0, 0, 0, 0,
       131, 215, 25, 231, 125, 234, 202, 20, 112, 246, 186, 246, 42, 77, 119, 67,
       3, 200, 153, 219, 105, 2, 15, 156, 112, 238, 29, 252, 8, 199, 206, 158,
       0, 0, 0, 0, 0, 0, 0, 0, 0, 0, 0, 0, 0, 0, 0, 0,
       0, 0, 0, 0, 0, 0, 0, 0, 0, 0, 0, 0, 0, 0, 0, 0,
       0, 0, 0, 0, 0, 0, 0, 0, 0, 0, 0, 0, 0, 0, 0, 0,
       0, 0, 0, 0, 0, 0, 0, 0, 0, 0, 0, 0, 0, 0, 0, 0,
       0, 0, 0, 0, 0, 0, 0, 0, 0, 0, 0, 0, 0, 0, 0, 0,
       0, 0, 0, 0, 0, 0, 0, 0, 0, 0, 0, 0, 0, 0, 0, 0,
       0, 0, 0, 0, 0, 0, 0, 0, 0, 0, 0, 0, 0, 0, 0, 0,
       0, 0, 0, 0, 0, 0, 0, 0, 0, 0, 0, 0, 0, 0, 0, 0,
       0, 0, 0, 0, 0, 0, 0, 0, 0, 0, 0, 0, 0, 0, 0, 0,
       0, 0, 0, 0, 0, 0, 0, 0, 0, 0, 0, 0, 0, 0, 0, 0,
       216, 33, 143, 100, 208, 197, 102, 9, 210, 3, 82, 225, 75, 127, 253, 155,
       24, 129, 192, 124, 248, 206, 246, 123, 194, 237, 248, 51, 173, 7, 157, 120,
       13, 214, 91, 135, 69, 120, 142, 168, 123, 228, 66, 45, 213, 119, 93, 128,
       245, 159, 169, 68, 102, 50, 19, 59, 51, 207, 45, 96, 241, 186, 81, 179 >>

(***************************************************************************)
(* The decoders as state machines: one read per step.                      *)
(***************************************************************************)
InitReport ==
    /\ \E len \in ReportLens, seed \in 0..MaxSeed : er = ReportStart(Fill(len, seed))
    /\ qt = Idle
    /\ mp = MapperIdle
    /\ ac = CertIdle
    /\ dc = DcapIdle

ReportReadAction ==
    /\ er.res = "running" /\ er.step <= Len(ReportLayout)
    /\ er' = ReportRead(er)
    /\ UNCHANGED <<qt, mp, ac, dc>>

ReportFinishAction ==
    /\ er.res = "running" /\ er.step > Len(ReportLayout)
    /\ er' = ReportFinish(er)
    /\ UNCHANGED <<qt, mp, ac, dc>>

NextReport == ReportReadAction \/ ReportFinishAction

SpecReport == InitReport /\ [][NextReport]_vars

InitQuote ==
    /\ er = Idle
    /\ mp = MapperIdle
    /\ ac = CertIdle
    /\ dc = DcapIdle
    /\ \/ \E len \in QuoteLens, hdr \in Headers, seed \in 0..MaxSeed :
             /\ hdr \in ValidHeaders \/ len \in {2, 4, QuoteWireLen, QuoteWireLen + 1}
             /\ qt = QuoteStart(QuoteBytes(len, hdr, seed))
       \/ qt = QuoteStart(FixtureQuote)

QuoteReadVersionAction ==
    /\ qt.res = "running" /\ qt.step = 1
    /\ qt' = QuoteReadVersion(qt)
    /\ UNCHANGED <<er, mp, ac, dc>>

QuoteReadTypeAction ==
    /\ qt.res = "running" /\ qt.step = 2
    /\ qt' = QuoteReadType(qt)
    /\ UNCHANGED <<er, mp, ac, dc>>

QuoteReadFieldAction ==
    /\ qt.res = "running" /\ qt.step > 2 /\ qt.step <= Len(QuoteLayout) + 2
    /\ qt' = QuoteReadField(qt)
    /\ UNCHANGED <<er, mp, ac, dc>>

QuoteFinishAction ==
    /\ qt.res = "running" /\ qt.step > Len(QuoteLayout) + 2
    /\ qt' = QuoteFinish(qt)
    /\ UNCHANGED <<er, mp, ac, dc>>

NextQuote ==
    \/ QuoteReadVersionAction
    \/ QuoteReadTypeAction
    \/ QuoteReadFieldAction
    \/ QuoteFinishAction

SpecQuote == InitQuote /\ [][NextQuote]_vars

\* both decoders: one call of either, on any of its inputs
InitDecoders == InitReport \/ InitQuote

NextDecoders ==
    \/ ReportReadAction
    \/ ReportFinishAction
    \/ QuoteReadVersionAction
    \/ QuoteReadTypeAction
    \/ QuoteReadFieldAction
    \/ QuoteFinishAction

SpecDecoders == InitDecoders /\ [][NextDecoders]_vars

(***************************************************************************)
(* Certificates given to from_cert, and from_cert as a state machine: one  *)
(* step of the function per action.                                        *)
(***************************************************************************)
\* a date-time text without zone designator
NaiveTime(y, mo, d, h, mi, sec) ==
    [wellformed |-> TRUE, y |-> y, mo |-> mo, d |-> d, h |-> h, mi |-> mi,
     s |-> sec, zone |-> <<>>]

\* a base64 text that decodes to QuoteBytes(len, hdr, seed)
QuoteText(len, hdr, seed) == [valid |-> TRUE, len |-> len, hdr |-> hdr, seed |-> seed]

SigningCert(der, issuer, not_before, not_after) ==
    [der |-> der, issuer |-> issuer, not_before |-> not_before, not_after |-> not_after]

\* a certificate every step accepts: a version 5 report with a V2 linkable
\* quote and the status GROUP_OUT_OF_DATE
GoodCert ==
    [payload |-> "ok",
     endorsed |-> "ok",
     signing_cert |-> SigningCert("ok", "ias", 1600000000, 1900000000),
     signature |-> "valid",
     report_json |-> "object",
     version |-> JInt(5),
     platformInfoBlob |-> JChars(<<"1", "5", "0", "2">>),
     isvEnclaveQuoteStatus |-> JStr("GROUP_OUT_OF_DATE"),
     isvEnclaveQuoteBody |-> JText(QuoteText(QuoteWireLen, <<2, 0, 1, 0>>, 0)),
     advisoryIDs |-> JArr(<<JStr("INTEL-SA-00334"), JStr("INTEL-SA-00161")>>),
     tcbEvaluationDataNumber |-> JInt(17),
     timestamp |-> JText(NaiveTime(2020, 2, 11, 22, 25, 59))]

\* what each part of a certificate may be instead
Alternatives ==
    [payload |-> {"absent"},
     endorsed |-> {"bad_json", "bad_base64"},
     signing_cert |->
        {SigningCert("malformed", "ias", 1600000000, 1900000000),
         SigningCert("ok", "other", 1600000000, 1900000000),
         SigningCert("ok", "ias", 1600000000, 1700000000),
         SigningCert("ok", "ias", 1800000000, 1900000000)},
     signature |-> {"invalid"},
     report_json |-> {"not_json", "array"},
     version |->
        {JAbsent, JNull, JInt(0), JInt(3), JInt(4), JInt(6), JInt(0 - 5),
         JFloat("5.0"), JStr("5"), JInt(65541), JBig(<<5, 0, 1, 0>>)},
     platformInfoBlob |->
        {JAbsent, JNull, JInt(7), JChars(<<>>), JChars(<<"a", "B">>),
         JChars(<<"1", "5", "0">>), JChars(<<"z", "z">>)},
     isvEnclaveQuoteStatus |->
        {JAbsent, JNull, JInt(0), JStr("OK"), JStr("SIGNATURE_INVALID"),
         JStr("KEY_REVOKED"), JStr(""), JStr("ok"), JStr("TCB_OK")},
     isvEnclaveQuoteBody |->
        {JAbsent, JInt(1),
         JText([valid |-> FALSE, len |-> 0, hdr |-> <<0, 0, 0, 0>>, seed |-> 0]),
         JText(QuoteText(0, <<2, 0, 1, 0>>, 0)),
         JText(QuoteText(QuoteWireLen - 1, <<2, 0, 1, 0>>, 0)),
         JText(QuoteText(QuoteWireLen + 1, <<2, 0, 1, 0>>, 0)),
         JText(QuoteText(QuoteWireLen, <<4, 0, 0, 0>>, 0)),
         JText(QuoteText(QuoteWireLen, <<3, 0, 2, 0>>, 1))},
     advisoryIDs |->
        {JAbsent, JNull, JStr("INTEL-SA-00334"), JArr(<<JInt(1)>>),
         JArr(<<JStr("INTEL-SA-00334"), JNull>>), JArr(<<>>),
         JArr(<<JStr("INTEL-SA-00161"), JStr("INTEL-SA-00161")>>)},
     tcbEvaluationDataNumber |->
        {JAbsent, JNull, JInt(0 - 1), JFloat("17.5"), JStr("17"), JInt(0),
         JInt(65535), JInt(65536), JInt(65537), JInt(131089), JInt(2147483647),
         JBig(<<5, 0, 1, 0>>), JBig(<<0, 0, 0, 32768>>),
         JBig(<<65535, 65535, 65535, 65535>>)},
     timestamp |->
        {JAbsent, JInt(1581459959),
         JText([NaiveTime(2020, 2, 11, 22, 25, 59) EXCEPT !.zone = <<"Z">>]),
         JText([NaiveTime(2020, 2, 11, 22, 25, 59) EXCEPT !.zone = <<"+01:00">>]),
         JText([NaiveTime(2020, 2, 11, 22, 25, 59) EXCEPT !.wellformed = FALSE]),
         JText(NaiveTime(2020, 13, 1, 0, 0, 0)),
         JText(NaiveTime(2023, 2, 29, 0, 0, 0)),
         JText(NaiveTime(2024, 2, 29, 12, 0, 0)),
         JText(NaiveTime(1970, 1, 1, 0, 0, 0)),
         JText(NaiveTime(1969, 12, 31, 23, 59, 59))}]

CertParts ==
    <<"payload", "endorsed", "signing_cert", "signature", "report_json", "version",
      "platformInfoBlob", "isvEnclaveQuoteStatus", "isvEnclaveQuoteBody",
      "advisoryIDs", "tcbEvaluationDataNumber", "timestamp">>

RECURSIVE Deviations(_, _)
\* the ways to replace at most k of the parts named by an alternative
Deviations(parts, k) ==
    IF parts = <<>> \/ k = 0 THEN {NoValue}
    ELSE Deviations(Tail(parts), k) \cup
         {(Head(parts) :> a) @@ d : a \in Alternatives[Head(parts)],
                                    d \in Deviations(Tail(parts), k - 1)}

\* the certificates from_cert is called with
Certs(k) == {d @@ GoodCert : d \in Deviations(CertParts, k)}

InitCert ==
    /\ er = Idle /\ qt = Idle /\ mp = MapperIdle /\ dc = DcapIdle
    /\ \E cert \in Certs(MaxDeviations) : ac = CertStart(cert)

\* from_cert is at the step `name`
At(name) == ac.res = "running" /\ Stages[ac.pc] = name

GetNetscapeCommentAction ==
    /\ At("get_netscape_comment")
    /\ ac' = GetNetscapeComment(ac)
    /\ UNCHANGED <<er, qt, mp, dc>>

DeserializeAction ==
    /\ At("deserialize")
    /\ ac' = Deserialize(ac)
    /\ UNCHANGED <<er, qt, mp, dc>>

EndEntityCertAction ==
    /\ At("end_entity_cert")
    /\ ac' = EndEntityCert(ac)
    /\ UNCHANGED <<er, qt, mp, dc>>

VerifyChainAction ==
    /\ At("verify_chain")
    /\ ac' = VerifyChain(ac)
    /\ UNCHANGED <<er, qt, mp, dc>>

VerifySignatureAction ==
    /\ At("verify_signature")
    /\ ac' = VerifySignature(ac)
    /\ UNCHANGED <<er, qt, mp, dc>>

ParseReportAction ==
    /\ At("parse_report")
    /\ ac' = ParseReportStage(ac)
    /\ UNCHANGED <<er, qt, mp, dc>>

CheckVersionAction ==
    /\ At("version")
    /\ ac' = CheckVersion(ac)
    /\ UNCHANGED <<er, qt, mp, dc>>

PlatformInfoBlobAction ==
    /\ At("platform_info_blob")
    /\ ac' = PlatformInfoBlob(ac)
    /\ UNCHANGED <<er, qt, mp, dc>>

QuoteStatusAction ==
    /\ At("quote_status")
    /\ ac' = QuoteStatus(ac)
    /\ UNCHANGED <<er, qt, mp, dc>>

QuoteBodyAction ==
    /\ At("quote_body")
    /\ ac' = QuoteBody(ac)
    /\ UNCHANGED <<er, qt, mp, dc>>

AdvisoriesAction ==
    /\ At("advisories")
    /\ ac' = Advisories(ac)
    /\ UNCHANGED <<er, qt, mp, dc>>

TcbEvalDataNumberAction ==
    /\ At("tcb_eval_data_number")
    /\ ac' = TcbEvalDataNumber(ac)
    /\ UNCHANGED <<er, qt, mp, dc>>

TimestampAction ==
    /\ At("timestamp")
    /\ ac' = Timestamp(ac)
    /\ UNCHANGED <<er, qt, mp, dc>>

ConstructAction ==
    /\ At("construct")
    /\ ac' = Construct(ac)
    /\ UNCHANGED <<er, qt, mp, dc>>

NextCert ==
    \/ GetNetscapeCommentAction
    \/ DeserializeAction
    \/ EndEntityCertAction
    \/ VerifyChainAction
    \/ VerifySignatureAction
    \/ ParseReportAction
    \/ CheckVersionAction
    \/ PlatformInfoBlobAction
    \/ QuoteStatusAction
    \/ QuoteBodyAction
    \/ AdvisoriesAction
    \/ TcbEvalDataNumberAction
    \/ TimestampAction
    \/ ConstructAction

SpecCert == InitCert /\ [][NextCert]_vars

(***************************************************************************)
(* The DCAP path: a raw ECDSA quote, its collateral and a reference time   *)
(* given to verify_quote_ecdsa, once untouched and once with one byte of   *)
(* the embedded report data changed.                                       *)
(***************************************************************************)
\* the reference time load_attestation_dcap returns
DcapTime == 1709649832

\* report_data within the quote: the last 64 bytes of the 384-byte report
\* body that follows the 48-byte header
ReportDataOffset == 48 + 320

\* the part of the quote the verification covers: the header and the report
\* body up to report_data, whose content is not checked at this layer
SignedBytes(quote) == SubSeq(quote, 1, ReportDataOffset)

\* verify_quote_ecdsa(quote, collateral, time): the collateral is genuine and
\* valid at the reference time, and the signature is one over this quote
VerifyQuoteEcdsa(quote, sig, coll, time_s) ==
    IF /\ coll.genuine
       /\ coll.not_before <= time_s /\ time_s <= coll.not_after
       /\ Len(quote) >= QuoteWireLen
       /\ sig = SignedBytes(quote)
    THEN "Ok" ELSE "Err"

\* load_attestation_dcap: the quote, its collateral and the reference time
DcapLoad(quote, sig, coll) ==
    [DcapIdle EXCEPT !.quote = quote, !.sig = sig, !.coll = coll,
                     !.time_s = DcapTime, !.pc = "loaded"]

\* the quote with byte k of report_data set to v
Tamper(quote, k, v) == Poke(quote, ReportDataOffset + k + 1, v)

\* the values a byte b is changed to: b + 4 as in the tamper test, b + 1 and
\* the complement of b
TamperValues(b) == {(b + 4) % 256, (b + 1) % 256, 255 - b}

Collaterals ==
    {[genuine |-> TRUE, not_before |-> 1700000000, not_after |-> 1720000000],
     [genuine |-> TRUE, not_before |-> 1600000000, not_after |-> 1700000000],
     [genuine |-> FALSE, not_before |-> 1700000000, not_after |-> 1720000000]}

DcapQuotes ==
    {QuoteBytes(QuoteWireLen, hdr, seed) : hdr \in {<<3, 0, 2, 0>>, <<3, 0, 3, 0>>},
                                           seed \in 0..MaxSeed}

InitDcap ==
    /\ er = Idle /\ qt = Idle /\ mp = MapperIdle /\ ac = CertIdle
    /\ \E quote \in DcapQuotes, signed \in DcapQuotes, coll \in Collaterals :
          dc = DcapLoad(quote, SignedBytes(signed), coll)

\* test_attestation_dcap: the quote as loaded is verified
DcapVerifyAction ==
    /\ dc.pc = "loaded"
    /\ dc' = [dc EXCEPT !.res = VerifyQuoteEcdsa(dc.quote, dc.sig, dc.coll, dc.time_s),
                        !.pc = "verified"]
    /\ UNCHANGED <<er, qt, mp, ac>>

\* one byte of the embedded report data is changed
DcapTamperAction ==
    /\ dc.pc = "verified"
    /\ \E k \in 0..63 : \E v \in TamperValues(dc.quote[ReportDataOffset + k + 1]) :
          dc' = [dc EXCEPT !.tampered = Tamper(dc.quote, k, v), !.pc = "tampered"]
    /\ UNCHANGED <<er, qt, mp, ac>>

\* test_attestation_dcap_temper: the changed quote is verified
DcapVerifyTamperedAction ==
    /\ dc.pc = "tampered"
    /\ dc' = [dc EXCEPT !.tres = VerifyQuoteEcdsa(dc.tampered, dc.sig, dc.coll, dc.time_s),
                        !.pc = "done"]
    /\ UNCHANGED <<er, qt, mp, ac>>

NextDcap == DcapVerifyAction \/ DcapTamperAction \/ DcapVerifyTamperedAction

SpecDcap == InitDcap /\ [][NextDcap]_vars

(***************************************************************************)
(* Properties of SgxEnclaveReport::parse_from (under SpecReport).          *)
(***************************************************************************)
\* C4: decode_enclave_report succeeds if and only if the input is exactly
\* 384 bytes long; every shorter and every longer buffer yields ParseError,
\* and on success the cursor equals the input length.
C4_ReportExactLength ==
    /\ er.res = "Ok" => Len(er.bytes) = 384 /\ er.pos = Len(er.bytes)
    /\ er.res = "ParseError" => Len(er.bytes) # 384
    /\ er.step = 1 =>
          /\ ParseEnclaveReport(er.bytes).res \in {"Ok", "ParseError"}
          /\ ParseEnclaveReport(er.bytes).res = "Ok" <=> Len(er.bytes) = 384

\* a 384-byte buffer decoded, every byte consumed
C4_Witness == er.res = "Ok" /\ Len(er.bytes) = 384 /\ er.pos = 384

\* the reserved regions of the wire layout, as 1-based positions
ReservedPositions == (21..48) \cup (97..128) \cup (161..256) \cup (261..320)

\* the buffer with every reserved byte changed
ReservedFlipped(bytes) ==
    [i \in 1..Len(bytes) |-> IF i \in ReservedPositions THEN 255 - bytes[i] ELSE bytes[i]]

\* C10: for every 384-byte input the decoded fields are the stated slices of
\* the input (multi-byte integers little-endian), nothing else is kept, and
\* inputs that differ only in reserved bytes decode to equal reports.
C10_ReportFields ==
    er.res = "Ok" =>
        LET b == er.bytes
            r == er.ret
        IN  /\ Len(b) = 384
            /\ DOMAIN r = {"cpu_svn", "misc_select", "attributes", "mr_enclave",
                           "mr_signer", "isv_prod_id", "isv_svn", "report_data"}
            /\ r.cpu_svn = SubSeq(b, 1, 16)
            /\ r.misc_select.lo = b[17] + 256 * b[18]
            /\ r.misc_select.hi = b[19] + 256 * b[20]
            /\ r.attributes = SubSeq(b, 49, 64)
            /\ r.mr_enclave = SubSeq(b, 65, 96)
            /\ r.mr_signer = SubSeq(b, 129, 160)
            /\ r.isv_prod_id = b[257] + 256 * b[258]
            /\ r.isv_svn = b[259] + 256 * b[260]
            /\ r.report_data = SubSeq(b, 321, 384)
            /\ \A p \in ReservedPositions : \A v \in {0, 255, (b[p] + 1) % 256} :
                  /\ ParseEnclaveReport(Poke(b, p, v)).res = "Ok"
                  /\ ParseEnclaveReport(Poke(b, p, v)).ret = r
            /\ ParseEnclaveReport(ReservedFlipped(b)).res = "Ok"
            /\ ParseEnclaveReport(ReservedFlipped(b)).ret = r

\* a decoded report whose two u16 fields differ and whose u32 field has its
\* top bit set
C10_Witness ==
    /\ er.res = "Ok"
    /\ er.ret.isv_prod_id # er.ret.isv_svn
    /\ er.ret.misc_select.hi >= 32768
    /\ ReservedFlipped(er.bytes) # er.bytes

(***************************************************************************)
(* Properties of SgxQuote::parse_from (under SpecQuote).                   *)
(***************************************************************************)
\* the version code and the type code of a buffer of at least four bytes
VersionCodeOf(bytes) == bytes[1] + 256 * bytes[2]
TypeCodeOf(bytes) == bytes[3] + 256 * bytes[4]

\* the accepted (version code, type code) pairs and their variants
AcceptedPairs ==
    (<<1, 0>> :> <<"V1", "Unlinkable">>) @@ (<<1, 1>> :> <<"V1", "Linkable">>) @@
    (<<2, 0>> :> <<"V2", "Unlinkable">>) @@ (<<2, 1>> :> <<"V2", "Linkable">>) @@
    (<<3, 2>> :> <<"V3", "P256_256">>) @@ (<<3, 3>> :> <<"V3", "P384_384">>)

\* C5: decode_quote succeeds only on buffers of exactly 432 bytes, the same
\* for V1, V2 and V3; any other length yields ParseError even with valid
\* codes, and a 432-byte buffer with valid codes always succeeds.
C5_QuoteExactLength ==
    /\ qt.res = "Ok" => Len(qt.bytes) = 432 /\ qt.pos = Len(qt.bytes)
    /\ qt.step = 1 =>
          LET out == ParseQuote(qt.bytes).res
          IN  /\ out \in {"Ok", "ParseError"}
              /\ Len(qt.bytes) # 432 => out = "ParseError"
              /\ ( /\ Len(qt.bytes) = 432
                   /\ <<VersionCodeOf(qt.bytes), TypeCodeOf(qt.bytes)>> \in DOMAIN AcceptedPairs )
                 => out = "Ok"
    /\ (qt.res = "ParseError" /\ Len(qt.bytes) = 432)
          => <<VersionCodeOf(qt.bytes), TypeCodeOf(qt.bytes)>> \notin DOMAIN AcceptedPairs

\* a V3 quote of 432 bytes decoded
C5_Witness ==
    /\ qt.res = "Ok" /\ Len(qt.bytes) = 432 /\ qt.pos = 432
    /\ qt.ret.version[1] = "V3"

\* C6: the little-endian u16 at bytes 0-1 is the version code and the one at
\* bytes 2-3 the type code; every pair outside the six accepted ones yields
\* ParseError, every accepted pair maps to its variant, none to a default.
C6_QuoteVersionCodes ==
    /\ qt.res = "Ok" =>
          /\ <<VersionCodeOf(qt.bytes), TypeCodeOf(qt.bytes)>> \in DOMAIN AcceptedPairs
          /\ qt.ret.version = AcceptedPairs[<<VersionCodeOf(qt.bytes), TypeCodeOf(qt.bytes)>>]
    /\ (qt.step = 1 /\ Len(qt.bytes) >= 2 /\ VersionCodeOf(qt.bytes) \notin {1, 2, 3})
          => ParseQuote(qt.bytes).res = "ParseError"
    /\ ( /\ qt.step = 1 /\ Len(qt.bytes) >= 4
         /\ <<VersionCodeOf(qt.bytes), TypeCodeOf(qt.bytes)>> \notin DOMAIN AcceptedPairs )
          => ParseQuote(qt.bytes).res = "ParseError"
    \* a rejected code stops the decoder at the code: nothing further is read
    /\ (qt.res = "ParseError" /\ Len(qt.bytes) >= 4 /\ qt.pos > 4)
          => <<VersionCodeOf(qt.bytes), TypeCodeOf(qt.bytes)>> \in DOMAIN AcceptedPairs

\* a quote with version code 3 and type code 3 decoded as V3(P384_384)
C6_Witness ==
    /\ qt.res = "Ok"
    /\ VersionCodeOf(qt.bytes) = 3 /\ TypeCodeOf(qt.bytes) = 3
    /\ qt.ret.version = <<"V3", "P384_384">>

\* the 16 bytes of the UUID written 00000000-ad73-4503-88a6-77623f822196
FixtureVendorId == <<0, 0, 0, 0, 173, 115, 69, 3, 136, 166, 119, 98, 63, 130, 33, 150>>

\* C11: for every accepted 432-byte quote, gid is the little-endian u32 of
\* bytes 4..8, isv_svn_qe the little-endian u16 of bytes 8..10, isv_svn_pce
\* that of bytes 10..12, qe_vendor_id the UUID of bytes 12..28 in order,
\* user_data bytes 28..48 and isv_enclave_report the decoded bytes 48..432;
\* the V2-Linkable fixture decodes to gid 2863, isv_svn_qe 10, isv_svn_pce 9
\* and qe_vendor_id 00000000-ad73-4503-88a6-77623f822196.
C11_QuoteFields ==
    /\ qt.res = "Ok" =>
          LET b == qt.bytes
              r == qt.ret
          IN  /\ Len(b) = 432
              /\ DOMAIN r = {"version", "gid", "isv_svn_qe", "isv_svn_pce",
                             "qe_vendor_id", "user_data", "isv_enclave_report"}
              /\ r.gid.lo = b[5] + 256 * b[6]
              /\ r.gid.hi = b[7] + 256 * b[8]
              /\ r.isv_svn_qe = b[9] + 256 * b[10]
              /\ r.isv_svn_pce = b[11] + 256 * b[12]
              /\ r.qe_vendor_id = SubSeq(b, 13, 28)
              /\ r.user_data = SubSeq(b, 29, 48)
              /\ ParseEnclaveReport(SubSeq(b, 49, 432)).res = "Ok"
              /\ r.isv_enclave_report = ParseEnclaveReport(SubSeq(b, 49, 432)).ret
    /\ (qt.bytes = FixtureQuote /\ qt.res # "running") =>
          /\ qt.res = "Ok"
          /\ qt.ret.version = <<"V2", "Linkable">>
          /\ qt.ret.gid.hi * 65536 + qt.ret.gid.lo = 2863
          /\ qt.ret.isv_svn_qe = 10
          /\ qt.ret.isv_svn_pce = 9
          /\ qt.ret.qe_vendor_id = FixtureVendorId

\* the fixture decoded, and a decoded quote whose two u16 fields differ
C11_Witness ==
    /\ qt.res = "Ok"
    /\ qt.bytes = FixtureQuote
    /\ qt.ret.gid.lo = 2863
    /\ qt.ret.isv_svn_qe # qt.ret.isv_svn_pce

(***************************************************************************)
(* Properties of both decoders (under SpecDecoders).                       *)
(***************************************************************************)
\* the number of bytes the next read of each decoder asks for
ReportReadLen == IF er.res = "running" /\ er.step \in 1..12
                 THEN <<16, 4, 28, 16, 32, 32, 32, 96, 2, 2, 60, 64>>[er.step] ELSE 0
QuoteReadLen == IF qt.res = "running" /\ qt.step \in 1..8
                THEN <<2, 2, 4, 2, 2, 16, 20, 384>>[qt.step] ELSE 0

\* no call has panicked, every cursor is within its buffer, and every input
\* is decoded to a value or to ParseError
DecodersSafe ==
    /\ er.res \in {"idle", "running", "Ok", "ParseError"}
    /\ qt.res \in {"idle", "running", "Ok", "ParseError"}
    /\ 0 <= er.pos /\ er.pos <= Len(er.bytes)
    /\ 0 <= qt.pos /\ qt.pos <= Len(qt.bytes)
    /\ er.step = 1 => ParseEnclaveReport(er.bytes).res \in {"Ok", "ParseError"}
    /\ qt.step = 1 => ParseQuote(qt.bytes).res \in {"Ok", "ParseError"}
    /\ er.step <= 13 /\ qt.step <= 9

\* a step never moves a cursor back, and a read that would pass the end of
\* the buffer fails with ParseError and leaves the cursor where it was
CursorStep ==
    /\ er'.pos >= er.pos /\ qt'.pos >= qt.pos
    /\ er'.bytes = er.bytes /\ qt'.bytes = qt.bytes
    /\ (ReportReadLen > 0 /\ er.pos + ReportReadLen > Len(er.bytes))
          => er'.res = "ParseError" /\ er'.pos = er.pos
    /\ (QuoteReadLen > 0 /\ qt.pos + QuoteReadLen > Len(qt.bytes))
          => qt'.res = "ParseError" /\ qt'.pos = qt.pos
    /\ (ReportReadLen > 0 /\ er.pos + ReportReadLen <= Len(er.bytes))
          => er'.pos = er.pos + ReportReadLen
    /\ (QuoteReadLen > 0 /\ qt.pos + QuoteReadLen <= Len(qt.bytes))
          => qt'.pos = qt.pos + QuoteReadLen

\* C13: neither decoder panics or reads out of bounds on any buffer, the
\* empty one included: each call ends with a value or ParseError, the cursor
\* stays within 0..len(bytes) and never decreases, and a read that would pass
\* the end of the buffer leaves the cursor unchanged and yields ParseError.
C13_NoPanicCursor == []DecodersSafe /\ [][CursorStep]_vars

\* a quote whose read of the embedded report would pass the end of the
\* buffer: ParseError with the cursor left at 48
C13_Witness ==
    /\ qt.res = "ParseError" /\ qt.step = 8
    /\ qt.pos = 48 /\ Len(qt.bytes) > 48 /\ Len(qt.bytes) < 432

(***************************************************************************)
(* Properties of the mappers (under SpecMapper).                           *)
(***************************************************************************)
\* the literals the mapping knows, with the status each is named after
KnownLiterals ==
    ("OK" :> "OK") @@ ("SIGNATURE_INVALID" :> "SignatureInvalid") @@
    ("GROUP_REVOKED" :> "GroupRevoked") @@ ("SIGNATURE_REVOKED" :> "SignatureRevoked") @@
    ("KEY_REVOKED" :> "KeyRevoked") @@ ("SIGRL_VERSION_MISMATCH" :> "SigrlVersionMismatch") @@
    ("GROUP_OUT_OF_DATE" :> "GroupOutOfDate") @@ ("OUT_OF_DATE" :> "OutOfDate") @@
    ("OUT_OF_DATE_CONFIGURATION_NEEDED" :> "OutOfDateConfigurationNeeded") @@
    ("CONFIGURATION_NEEDED" :> "ConfigurationNeeded") @@
    ("SW_HARDENING_NEEDED" :> "SwHardeningNeeded") @@
    ("CONFIGURATION_AND_SW_HARDENING_NEEDED" :> "ConfigurationAndSwHardeningNeeded")

\* the mapping of the string given: one of the 13 statuses, the same-named
\* status for a known literal, UnknownBadStatus for every other string
StatusMappingHolds ==
    /\ mp.ret \in SgxQuoteStatus
    /\ Cardinality(SgxQuoteStatus) = 13
    /\ mp.arg \in DOMAIN KnownLiterals => mp.ret = KnownLiterals[mp.arg]
    /\ mp.arg \notin DOMAIN KnownLiterals => mp.ret = "UnknownBadStatus"

\* the strings of the input universe that do not map to UnknownBadStatus
RecognizedStrings == {s \in StatusStrings : SgxQuoteStatusFrom(s) # "UnknownBadStatus"}

\* C7 as stated: the string-to-status mapping is total, each known literal
\* maps to its same-named status, every other string (empty, other case) to
\* UnknownBadStatus, and the table of known literals has exactly 11 entries.
C7_Original ==
    (mp.call = "SgxQuoteStatus::from" /\ mp.done) =>
        /\ StatusMappingHolds
        /\ Len(StatusArms) = 11
        /\ Cardinality(RecognizedStrings) = 11

\* C7 amended: as stated, except that the table of known literals has
\* exactly 12 entries (the 12 literals the claim itself lists).
C7_StatusFromStr ==
    (mp.call = "SgxQuoteStatus::from" /\ mp.done) =>
        /\ StatusMappingHolds
        /\ Len(StatusArms) = 12
        /\ Cardinality(RecognizedStrings) = 12
        /\ RecognizedStrings = DOMAIN KnownLiterals

\* the lower-case "ok" classified as UnknownBadStatus
C7_Witness ==
    (mp.call = "SgxQuoteStatus::from" /\ mp.done) /\ mp.arg = "ok" /\ mp.ret = "UnknownBadStatus"

\* the seven statuses with an outcome of their own
NamedOutcomes ==
    ("ConfigurationAndSwHardeningNeeded" :> "SwHardeningAndConfigurationNeeded") @@
    ("ConfigurationNeeded" :> "ConfigurationNeeded") @@
    ("GroupOutOfDate" :> "GroupOutOfDate") @@
    ("KeyRevoked" :> "KeyRevoked") @@
    ("SigrlVersionMismatch" :> "SigrlVersionMismatch") @@
    ("SignatureRevoked" :> "SignatureRevoked") @@
    ("GroupRevoked" :> "GroupRevoked")

\* C8: the status-to-outcome mapping is total over the 13 statuses; exactly
\* seven statuses map to their own distinct named outcome, the other six
\* (OK included) to BadQuoteStatus, and no status maps to a success outcome.
C8_NodeAuthResultFrom ==
    (mp.call = "NodeAuthResult::from" /\ mp.done) =>
        /\ mp.arg \in SgxQuoteStatus
        /\ Cardinality(DOMAIN NamedOutcomes) = 7
        /\ Cardinality({NamedOutcomes[x] : x \in DOMAIN NamedOutcomes}) = 7
        /\ "BadQuoteStatus" \notin {NamedOutcomes[x] : x \in DOMAIN NamedOutcomes}
        /\ SgxQuoteStatus \ DOMAIN NamedOutcomes =
              {"OK", "SignatureInvalid", "SwHardeningNeeded", "OutOfDate",
               "OutOfDateConfigurationNeeded", "UnknownBadStatus"}
        /\ mp.arg \in DOMAIN NamedOutcomes => mp.ret = NamedOutcomes[mp.arg]
        /\ mp.arg \notin DOMAIN NamedOutcomes => mp.ret = "BadQuoteStatus"
        /\ mp.ret # "Success"

\* the status OK mapped to BadQuoteStatus
C8_Witness ==
    (mp.call = "NodeAuthResult::from" /\ mp.done) /\ mp.arg = "OK" /\ mp.ret = "BadQuoteStatus"

\* the allow-list and the descriptions the claim names
AllowList ==
    {"INTEL-SA-00334", "INTEL-SA-00219", "INTEL-SA-00615", "INTEL-SA-00657",
     "INTEL-SA-00767"}

Described == {"INTEL-SA-00161", "INTEL-SA-00289"}

DescriptionOf(id) ==
    IF id = "INTEL-SA-00161" THEN "You must disable hyperthreading in the BIOS"
    ELSE "You must disable overclocking/undervolting in the BIOS"

RECURSIVE ExpectedVulnerable(_)
\* front to back: nothing for an allow-listed ID, the ID and its description
\* for a described one, the ID alone otherwise
ExpectedVulnerable(ids) ==
    IF ids = <<>> THEN <<>>
    ELSE (IF Head(ids) \in AllowList THEN <<>>
          ELSE IF Head(ids) \in Described THEN <<Head(ids), DescriptionOf(Head(ids))>>
          ELSE <<Head(ids)>>) \o ExpectedVulnerable(Tail(ids))

\* C9: vulnerable returns the empty sequence when every reported ID is
\* allow-listed; otherwise, in input order and with duplicates, each reported
\* ID that is not allow-listed, followed by its description when it has one.
\* No allow-listed ID appears, a description appears only right after its
\* reported ID, and the input list is left unchanged.
C9_Vulnerable ==
    (mp.call = "vulnerable" /\ mp.done) =>
        /\ mp.self = mp.arg
        /\ (\A k \in DOMAIN mp.arg : mp.arg[k] \in AllowList) => mp.ret = <<>>
        /\ mp.ret = ExpectedVulnerable(mp.arg)
        /\ \A k \in DOMAIN mp.ret : mp.ret[k] \notin AllowList
        /\ \A k \in DOMAIN mp.ret :
              \/ \E j \in DOMAIN mp.arg : mp.arg[j] = mp.ret[k]
              \/ /\ k > 1 /\ mp.ret[k - 1] \in Described
                 /\ mp.ret[k] = DescriptionOf(mp.ret[k - 1])
                 /\ \E j \in DOMAIN mp.arg : mp.arg[j] = mp.ret[k - 1]

\* a list with an allow-listed ID, a described ID twice and an undescribed one
C9_Witness ==
    /\ (mp.call = "vulnerable" /\ mp.done)
    /\ mp.arg = <<"INTEL-SA-00161", "INTEL-SA-00334", "INTEL-SA-00161">>
    /\ Len(mp.ret) = 4

(***************************************************************************)
(* Properties of AttestationReport::from_cert (under SpecCert).            *)
(***************************************************************************)
\* the call has returned
Returned == ac.res \in {"Ok", "ReportParseError", "ReportValidationError"}

\* what the certificate must be for each step to succeed, stated on the
\* certificate alone
PayloadExtracts(cert) == cert.payload = "ok"
EndorsedDeserializes(cert) == cert.endorsed = "ok"
CertificateBuilds(cert) == cert.signing_cert.der = "ok"
ChainValidates(cert) ==
    /\ cert.signing_cert.issuer = "ias"
    /\ cert.signing_cert.not_before <= 1723218496
    /\ 1723218496 <= cert.signing_cert.not_after
SignatureVerifies(cert) == cert.signature = "valid"
ReportIsJson(cert) == cert.report_json \in {"object", "array"}
\* a member as the report JSON gives it: Null when the JSON is no object
Member(cert, key) == IF cert.report_json = "object" THEN cert[key] ELSE JAbsent
VersionIsFive(cert) ==
    /\ Member(cert, "version").t = "posint"
    /\ Member(cert, "version").a = <<>> /\ Member(cert, "version").n = 5
BlobDecodes(cert) ==
    LET blob == Member(cert, "platformInfoBlob")
    IN  blob.t = "string" =>
           /\ Len(blob.a) % 2 = 0
           /\ \A k \in DOMAIN blob.a : blob.a[k] \in DOMAIN HexDigits
StatusDecodes(cert) == Member(cert, "isvEnclaveQuoteStatus").t = "string"
QuoteDecodes(cert) ==
    LET body == Member(cert, "isvEnclaveQuoteBody")
    IN  /\ body.t = "string" /\ body.r.valid /\ body.r.len = 432
        /\ <<body.r.hdr[1] + 256 * body.r.hdr[2], body.r.hdr[3] + 256 * body.r.hdr[4]>>
              \in {<<1, 0>>, <<1, 1>>, <<2, 0>>, <<2, 1>>, <<3, 2>>, <<3, 3>>}
AdvisoriesDecode(cert) ==
    LET raw == Member(cert, "advisoryIDs")
    IN  raw.t # "absent" =>
           raw.t = "array" /\ \A k \in DOMAIN raw.a : raw.a[k].t = "string"
TcbDecodes(cert) == Member(cert, "tcbEvaluationDataNumber").t = "posint"
TimestampDecodes(cert) ==
    LET ts == Member(cert, "timestamp")
    IN  /\ ts.t = "string" /\ ts.r.wellformed /\ ts.r.zone = <<>>
        /\ ts.r.mo \in 1..12 /\ ts.r.d \in 1..DaysInMonth(ts.r.y, ts.r.mo)
        /\ ts.r.h \in 0..23 /\ ts.r.mi \in 0..59 /\ ts.r.s \in 0..59

EveryStageSucceeds(cert) ==
    /\ PayloadExtracts(cert) /\ EndorsedDeserializes(cert)
    /\ CertificateBuilds(cert) /\ ChainValidates(cert) /\ SignatureVerifies(cert)
    /\ ReportIsJson(cert) /\ VersionIsFive(cert)
    /\ BlobDecodes(cert) /\ StatusDecodes(cert) /\ QuoteDecodes(cert)
    /\ AdvisoriesDecode(cert) /\ TcbDecodes(cert) /\ TimestampDecodes(cert)

\* C1: from_cert returns an AttestationReport only if every stage succeeded
\* in that call (payload, deserialization, chain, signature, report JSON,
\* version, every required field); when any stage fails it returns an Error
\* and produces no AttestationReport, not even a partly filled one.
C1_NoPartialResult ==
    /\ ac.res = "Ok" =>
          /\ EveryStageSucceeds(ac.cert)
          /\ Stages[ac.pc] = "construct"
          /\ DOMAIN ac.ret = {"timestamp", "sgx_quote_status", "sgx_quote_body",
                              "platform_info_blob", "advisory_ids",
                              "tcb_eval_data_number"}
    /\ ac.res \in {"running", "ReportParseError", "ReportValidationError"} =>
          ac.ret = NoValue
    /\ (Returned /\ ~EveryStageSucceeds(ac.cert)) =>
          ac.res \in {"ReportParseError", "ReportValidationError"}
    /\ (ac.res = "running" /\ ac.pc = 1) =>
          /\ FromCert(ac.cert).res \in {"Ok", "ReportParseError", "ReportValidationError"}
          /\ FromCert(ac.cert).res = "Ok" <=> EveryStageSucceeds(ac.cert)

\* a report returned, with all six fields, for a certificate without
\* platformInfoBlob and advisoryIDs
C1_Witness ==
    /\ ac.res = "Ok"
    /\ ac.cert.platformInfoBlob.t = "absent" /\ ac.cert.advisoryIDs.t = "absent"
    /\ ~ac.ret.platform_info_blob.some
    /\ ac.ret.advisory_ids = <<>>
    /\ ac.ret.sgx_quote_status = "GroupOutOfDate"

\* the verify_chain step taken as the claim reads it: building the
\* end-entity certificate and validating it
VerifyChainStepFails(cert) ==
    /\ PayloadExtracts(cert) /\ EndorsedDeserializes(cert)
    /\ ~(CertificateBuilds(cert) /\ ChainValidates(cert))

\* C2 as stated: from_cert returns ValidationError exactly when verify_chain
\* fails, verify_chain covering both the building of the end-entity
\* certificate and its validation; every other failure returns ParseError.
C2_Original ==
    Returned =>
        /\ ac.res = "ReportValidationError" <=> VerifyChainStepFails(ac.cert)
        /\ (~EveryStageSucceeds(ac.cert) /\ ~VerifyChainStepFails(ac.cert))
              => ac.res = "ReportParseError"

\* the validation of a certificate that was built fails
ValidationFails(cert) ==
    /\ PayloadExtracts(cert) /\ EndorsedDeserializes(cert)
    /\ CertificateBuilds(cert) /\ ~ChainValidates(cert)

\* C2 amended: from_cert returns ValidationError exactly when the end-entity
\* certificate was built from the signing_cert bytes and its validation
\* against the trust anchors fails; every other failure, the failure to build
\* the end-entity certificate included, returns ParseError. A signature
\* failure on a chain-valid certificate returns ParseError.
C2_ErrorKinds ==
    Returned =>
        /\ ac.res = "ReportValidationError" <=> ValidationFails(ac.cert)
        /\ (~EveryStageSucceeds(ac.cert) /\ ~ValidationFails(ac.cert))
              => ac.res = "ReportParseError"
        /\ ( /\ PayloadExtracts(ac.cert) /\ EndorsedDeserializes(ac.cert)
             /\ ~CertificateBuilds(ac.cert) ) => ac.res = "ReportParseError"
        /\ ( /\ PayloadExtracts(ac.cert) /\ EndorsedDeserializes(ac.cert)
             /\ CertificateBuilds(ac.cert) /\ ChainValidates(ac.cert)
             /\ ~SignatureVerifies(ac.cert) ) => ac.res = "ReportParseError"

\* an expired certificate with a bad signature: ValidationError
C2_Witness ==
    /\ ac.res = "ReportValidationError"
    /\ ac.cert.signing_cert.not_after < 1723218496
    /\ ac.cert.signature = "invalid"

\* payload extraction, deserialization, chain validation and signature
\* verification all succeed
Verified(cert) ==
    /\ PayloadExtracts(cert) /\ EndorsedDeserializes(cert)
    /\ CertificateBuilds(cert) /\ ChainValidates(cert) /\ SignatureVerifies(cert)

FieldsReached(cert) == Verified(cert) /\ ReportIsJson(cert) /\ VersionIsFive(cert)

\* a member that is present in the report but is not a value its field can
\* hold: of the wrong JSON type, malformed, or out of the target type's range
BlobMalformed(cert) ==
    LET blob == Member(cert, "platformInfoBlob")
    IN  blob.t # "absent" /\ ~(blob.t = "string" /\ BlobDecodes(cert))
StatusMalformed(cert) ==
    Member(cert, "isvEnclaveQuoteStatus").t \notin {"absent", "string"}
BodyMalformed(cert) ==
    Member(cert, "isvEnclaveQuoteBody").t # "absent" /\ ~QuoteDecodes(cert)
AdvisoriesMalformed(cert) == ~AdvisoriesDecode(cert)
TcbMalformed(cert) ==
    LET n == Member(cert, "tcbEvaluationDataNumber")
    IN  n.t # "absent" /\ ~(n.t = "posint" /\ n.a = <<>> /\ n.n <= 65535)
TimestampMalformed(cert) ==
    LET ts == Member(cert, "timestamp")
    IN  ts.t # "absent" /\ ~(TimestampDecodes(cert) /\ ts.r.y >= 1970)

\* C12: in the field-decoding steps the only silent defaults are an
\* unrecognized status string (UnknownBadStatus), an absent advisoryIDs
\* (empty list) and an absent platformInfoBlob (None); every other field that
\* is present but malformed, of the wrong JSON type or out of range makes
\* from_cert return ParseError instead of a defaulted or altered value.
C12_SilentDefaults ==
    (Returned /\ FieldsReached(ac.cert)) =>
        /\ ( \/ BlobMalformed(ac.cert) \/ StatusMalformed(ac.cert)
             \/ BodyMalformed(ac.cert) \/ AdvisoriesMalformed(ac.cert)
             \/ TcbMalformed(ac.cert) \/ TimestampMalformed(ac.cert) )
           => ac.res = "ReportParseError"
        /\ ac.res = "Ok" =>
              /\ ac.ret.platform_info_blob = None
                    => Member(ac.cert, "platformInfoBlob").t = "absent"
              /\ ac.ret.advisory_ids = <<>>
                    => \/ Member(ac.cert, "advisoryIDs").t = "absent"
                       \/ Member(ac.cert, "advisoryIDs") = JArr(<<>>)
              /\ ac.ret.sgx_quote_status = "UnknownBadStatus"
                    => Member(ac.cert, "isvEnclaveQuoteStatus").s \notin DOMAIN KnownLiterals

\* the call is at the step `name` in the given state of from_cert
AtStage(st, name) == st.res = "running" /\ Stages[st.pc] = name

\* what from_cert binds from the parsed report JSON and from the quote
ReportLocals ==
    {"attn_report", "platform_info_blob", "sgx_quote_status", "sgx_quote_body",
     "advisories", "tcb_eval_data_number", "timestamp_since_epoch"}

\* the signing certificate was built but does not pass chain validation
ChainInvalid(cert) ==
    /\ PayloadExtracts(cert) /\ EndorsedDeserializes(cert)
    /\ CertificateBuilds(cert) /\ ~ChainValidates(cert)

StagesInOrder ==
    \* the signature is verified only with a certificate that passed the chain
    /\ AtStage(ac, "verify_signature") =>
          CertificateBuilds(ac.cert) /\ ChainValidates(ac.cert)
    \* nothing of the report is parsed or decoded before both checks passed
    /\ (AtStage(ac, "parse_report") \/ ReportLocals \cap DOMAIN ac.locals # {}
        \/ ac.res = "Ok") =>
          ChainValidates(ac.cert) /\ SignatureVerifies(ac.cert)
    /\ (AtStage(ac, "verify_chain") \/ AtStage(ac, "verify_signature")) =>
          ReportLocals \cap DOMAIN ac.locals = {}
    \* an invalid chain wins over a malformed report
    /\ (ChainInvalid(ac.cert) /\ ~ReportIsJson(ac.cert)) =>
          /\ Returned => ac.res = "ReportValidationError"
          /\ ac.pc = 1 => FromCert(ac.cert).res = "ReportValidationError"

StageSteps ==
    /\ (AtStage(ac', "verify_signature") /\ ~AtStage(ac, "verify_signature"))
          => AtStage(ac, "verify_chain")
    /\ (AtStage(ac', "parse_report") /\ ~AtStage(ac, "parse_report"))
          => AtStage(ac, "verify_signature")
    /\ ~(AtStage(ac, "verify_signature") /\ AtStage(ac', "verify_chain"))

\* C15: within one from_cert call chain validation strictly precedes
\* signature verification, the signature is verified only with a certificate
\* that passed chain validation, and nothing of the report is parsed as JSON
\* or decoded as a quote before both have succeeded; so an invalid chain
\* together with a malformed report JSON yields ValidationError.
C15_StageOrder == []StagesInOrder /\ [][StageSteps]_vars

\* an invalid chain and a report that is no JSON: ValidationError
C15_Witness ==
    /\ ChainInvalid(ac.cert) /\ ~ReportIsJson(ac.cert)
    /\ ac.res = "ReportValidationError"
    /\ ac.cert.signature = "valid"

\* every step before the read of tcbEvaluationDataNumber succeeds
TcbReached(cert) ==
    /\ FieldsReached(cert) /\ BlobDecodes(cert) /\ StatusDecodes(cert)
    /\ QuoteDecodes(cert) /\ AdvisoriesDecode(cert)

\* the field value modulo 2^16: of a value below 2^31 by division, of a
\* larger one its least significant 16-bit limb
TcbModulo(n) == IF n.a = <<>> THEN n.n % 65536 ELSE n.a[1]

\* 2^32 + 5, 2^63 and 2^64 - 1 with their residues modulo 2^16
BigTcbExamples ==
    (<<5, 0, 1, 0>> :> 5) @@ (<<0, 0, 0, 32768>> :> 0) @@
    (<<65535, 65535, 65535, 65535>> :> 65535)

\* C16: for every report that passes the earlier stages, tcb_eval_data_number
\* is tcbEvaluationDataNumber modulo 2^16 for any unsigned 64-bit value
\* (0..65535 kept exactly, larger values accepted and reduced, not rejected
\* or clamped); an absent, negative or non-integer field yields ParseError.
C16_TcbTruncation ==
    TcbReached(ac.cert) =>
        LET n == Member(ac.cert, "tcbEvaluationDataNumber")
        IN  /\ "tcb_eval_data_number" \in DOMAIN ac.locals =>
                  /\ n.t = "posint"
                  /\ ac.locals.tcb_eval_data_number = TcbModulo(n)
            /\ (Returned /\ n.t = "posint") =>
                  /\ ac.res = "Ok" <=> TimestampDecodes(ac.cert)
                  /\ ac.res = "ReportParseError" => Stages[ac.pc] = "timestamp"
            /\ (ac.res = "Ok") =>
                  /\ ac.ret.tcb_eval_data_number \in 0..65535
                  /\ ac.ret.tcb_eval_data_number = TcbModulo(n)
                  /\ (n.a = <<>> /\ n.n <= 65535) => ac.ret.tcb_eval_data_number = n.n
                  /\ (n.a = <<>> /\ n.n >= 65536) =>
                        \E q \in 1..32767 : n.n = q * 65536 + ac.ret.tcb_eval_data_number
                  /\ n.a \in DOMAIN BigTcbExamples =>
                        ac.ret.tcb_eval_data_number = BigTcbExamples[n.a]
            /\ (Returned /\ n.t # "posint") =>
                  /\ ac.res = "ReportParseError"
                  /\ Stages[ac.pc] = "tcb_eval_data_number"

\* 2^32 + 5 accepted and returned as 5
C16_Witness ==
    /\ ac.res = "Ok"
    /\ Member(ac.cert, "tcbEvaluationDataNumber") = JBig(<<5, 0, 1, 0>>)
    /\ ac.ret.tcb_eval_data_number = 5

\* every step before the read of timestamp succeeds
TimestampReached(cert) ==
    TcbReached(cert) /\ Member(cert, "tcbEvaluationDataNumber").t = "posint"

\* the days of the months before month m of a common year
DaysBeforeMonth == <<0, 31, 59, 90, 120, 151, 181, 212, 243, 273, 304, 334>>

LeapYear(y) == (y % 4 = 0 /\ y % 100 # 0) \/ y % 400 = 0

\* the leap years among a set of years
LeapYears(years) == Cardinality({k \in years : LeapYear(k)})

\* the seconds from 1970-01-01T00:00:00 UTC to the date and time read as
\* UTC, counted year by year; negative before 1970
SecondsSinceEpoch(t) ==
    LET whole == IF t.y >= 1970
                 THEN 365 * (t.y - 1970) + LeapYears(1970..(t.y - 1))
                 ELSE 0 - (365 * (1970 - t.y) + LeapYears(t.y..1969))
        days  == whole + DaysBeforeMonth[t.mo] + t.d - 1
                 + (IF LeapYear(t.y) /\ t.mo > 2 THEN 1 ELSE 0)
    IN  days * 86400 + t.h * 3600 + t.mi * 60 + t.s

\* C17: for every timestamp string from_cert accepts, the timestamp returned
\* (u64) is the number of seconds from the Unix epoch to the instant the
\* string denotes read as UTC, also for instants before 1970-01-01T00:00:00;
\* a string that already carries a zone suffix is rejected with ParseError.
C17_Timestamp ==
    TimestampReached(ac.cert) =>
        LET ts == Member(ac.cert, "timestamp")
        IN  /\ ac.res = "Ok" =>
                  /\ ts.t = "string" /\ ts.r.zone = <<>>
                  /\ SecondsSinceEpoch(ts.r) >= 0
                  /\ ac.ret.timestamp =
                        << SecondsSinceEpoch(ts.r) % 65536,
                           (SecondsSinceEpoch(ts.r) \div 65536) % 65536, 0, 0 >>
            /\ (Returned /\ ts.t = "string" /\ ts.r.zone # <<>>) =>
                  ac.res = "ReportParseError"

\* every step before the read of advisoryIDs succeeds
AdvisoriesReached(cert) ==
    /\ FieldsReached(cert) /\ BlobDecodes(cert) /\ StatusDecodes(cert)
    /\ QuoteDecodes(cert)

\* the member is an array whose elements are all strings
ArrayOfStrings(raw) ==
    raw.t = "array" /\ \A k \in 1..Len(raw.a) : raw.a[k].t = "string"

\* C18: an absent advisoryIDs gives the empty sequence; an array of strings
\* gives that sequence, in the same order, duplicates kept; any other shape
\* (null, a non-array value, an array with a non-string element) makes
\* from_cert return ParseError instead of the empty sequence.
C18_AdvisoryShapes ==
    AdvisoriesReached(ac.cert) =>
        LET raw == Member(ac.cert, "advisoryIDs")
        IN  /\ (ac.res = "Ok" /\ raw.t = "absent") => ac.ret.advisory_ids = <<>>
            /\ (ac.res = "Ok" /\ raw.t # "absent") =>
                  /\ ArrayOfStrings(raw)
                  /\ Len(ac.ret.advisory_ids) = Len(raw.a)
                  /\ \A k \in 1..Len(raw.a) : ac.ret.advisory_ids[k] = raw.a[k].s
            /\ (Returned /\ raw.t # "absent" /\ ~ArrayOfStrings(raw)) =>
                  /\ ac.res = "ReportParseError"
                  /\ Stages[ac.pc] = "advisories"
            /\ (Returned /\ (raw.t = "absent" \/ ArrayOfStrings(raw))) =>
                  \/ ac.res = "Ok"
                  \/ /\ ac.res = "ReportParseError"
                     /\ Stages[ac.pc] \in {"tcb_eval_data_number", "timestamp"}

\* an array that holds the same ID twice, returned with both
C18_Witness ==
    /\ ac.res = "Ok"
    /\ Member(ac.cert, "advisoryIDs").t = "array"
    /\ ac.ret.advisory_ids = <<"INTEL-SA-00161", "INTEL-SA-00161">>

\* the certificate with the status string of its report replaced
WithStatus(cert, str) == [cert EXCEPT !.isvEnclaveQuoteStatus = JStr(str)]

\* the fields of a result other than sgx_quote_status
OtherFields(ret) ==
    [k \in DOMAIN ret \ {"sgx_quote_status"} |-> ret[k]]

\* status strings that do not stand for a trustworthy quote: invalid
\* signature, the revoked statuses, and strings the table does not know
UntrustedStatuses ==
    {"SIGNATURE_INVALID", "GROUP_REVOKED", "SIGNATURE_REVOKED", "KEY_REVOKED",
     "TCB_OK", "", "ok"}

\* the status strings a report is compared under
ComparedStatuses == UntrustedStatuses \cup {"OK", "GROUP_OUT_OF_DATE"}

\* C19: whether from_cert succeeds does not depend on the value of the
\* isvEnclaveQuoteStatus string: two reports that pass chain and signature
\* verification and differ only in that string both fail, or both succeed
\* with results that differ only in sgx_quote_status; from_cert returns Ok
\* for SIGNATURE_INVALID, the revoked statuses and unrecognized strings.
C19_StatusIndependence ==
    ( /\ Returned /\ Verified(ac.cert) /\ ReportIsJson(ac.cert)
      /\ Member(ac.cert, "isvEnclaveQuoteStatus").t = "string" ) =>
        \A str \in ComparedStatuses :
            LET other == FromCert(WithStatus(ac.cert, str))
            IN  /\ other.res = ac.res
                /\ ac.res = "Ok" =>
                      /\ other.res = "Ok"
                      /\ DOMAIN other.ret = DOMAIN ac.ret
                      /\ OtherFields(other.ret) = OtherFields(ac.ret)
                      /\ other.ret.sgx_quote_status = SgxQuoteStatusFrom(str)

\* a report with status SIGNATURE_INVALID accepted
C19_Witness ==
    /\ ac.res = "Ok"
    /\ Member(ac.cert, "isvEnclaveQuoteStatus").s = "SIGNATURE_INVALID"
    /\ ac.ret.sgx_quote_status = "SignatureInvalid"

(***************************************************************************)
(* Properties of the DCAP path (under SpecDcap).                           *)
(***************************************************************************)
\* report_data as decode_enclave_report decodes it from the report body
\* embedded in a quote
DecodedReportData(quote) ==
    ParseEnclaveReport(SubSeq(quote, 49, QuoteWireLen)).ret.report_data

====
